---- MODULE Spec2Model ----
(***************************************************************************)
(* A model of the Camb AI client (src/cambai/__init__.py) and of the older *)
(* camb_ai_pip client (src/camb_ai_pip/__init__.py): one client object,    *)
(* the calls made on it one after the other, and the remote service as an  *)
(* environment that answers every request as it likes.                     *)
(***************************************************************************)
EXTENDS Integers, Sequences, FiniteSets, TLC

\* ---------------------------------------------------------------- bounds

\* Calls made on one client in one behaviour.
MaxCalls == 2
\* Status responses recorded per call; later ones are not recorded.
MaxHist == 3
\* Chunks in one streamed audio response.
MaxChunks == 2

\* ------------------------------------------------------- values and inputs

\* An Optional[int] is the empty set (None) or a singleton.
NoneVal == {}
Some(n) == {n}
IsNone(x) == x = {}
The(x) == CHOOSE v \in x : TRUE

\* class Gender(IntEnum): the four members.
Gender == {"Gender.NOT_KNOWN", "Gender.MALE", "Gender.FEMALE", "Gender.NOT_APPLICABLE"}
\* gender arguments a caller can pass: None, a member, or something that is
\* no instance of Gender (a bare int, a string).
GenderInputs == Gender \cup {"None", "int 1", "str male"}
\* gender.value of a member
GenderValue(g) ==
    CASE g = "Gender.NOT_KNOWN" -> 0
      [] g = "Gender.MALE" -> 1
      [] g = "Gender.FEMALE" -> 2
      [] g = "Gender.NOT_APPLICABLE" -> 9

LanguageInputs == {0, 1, 148, 149}
FormalityInputs == {NoneVal, Some(0), Some(1), Some(2), Some(3)}
\* Paths of the local file system; ExistingFiles are the ones open() finds.
FileInputs == {"voice.wav", "missing.wav", "voice.mp3", "missing.mp3", "notes.txt"}
ExistingFiles == {"voice.wav", "voice.mp3", "notes.txt"}
\* polling_interval in tenths of a second (0.5 s is 5).
IntervalInputs == {-5, 0, 15}

\* What the remote service can answer.
HttpCodes == {200, 400, 500}
TaskIds == {"t1", "t2"}
NoRun == "null"
RunIds == {"r1", "r2"}
Statuses == {"SUCCESS", "PENDING", "TIMEOUT", "ERROR", "PAYMENT_REQUIRED", "UNRECOGNISED"}
Payloads == {"p1", "p2"}
\* The chunks response.iter_content yields, each a run of bytes, and the
\* streams of them an audio response can be: up to MaxChunks chunks, no two
\* the same.
Chunks == {<<1>>, <<2, 3>>}
Streams ==
    {s \in UNION {[1..n -> Chunks] : n \in 0..MaxChunks} :
        \A i, j \in 1..Len(s) : s[i] = s[j] => i = j}
\* output_directory: None, or a directory (the default one).
DirectoryInputs == {NoneVal, Some("audio_tts")}

\* The orchestration methods and the submitters they call.
CambOrchestrations == {"dub", "tts", "transcribe", "translate", "translate_tts"}
Orchestrations == CambOrchestrations \cup {"pip_dub"}
Submitters == {"start_dubbing", "create_tts", "create_transcription",
               "create_translation", "create_translated_tts",
               "create_custom_voice", "pip_start_dubbing"}
\* The methods that list what the service offers, in both clients.
Listings == {"get_languages", "get_all_voices",
             "pip_get_languages", "pip_get_all_voices"}
\* The methods of the older client.
PipOps == {"pip_dub", "pip_start_dubbing", "pip_get_languages", "pip_get_all_voices"}
\* The status query, which a caller may also run on its own.
StatusQueries == {"get_task_status"}
Ops == Orchestrations \cup Submitters \cup Listings \cup StatusQueries

\* The submitter an operation runs first.
SubmitterOf(o) ==
    CASE o \in {"dub", "start_dubbing"} -> "start_dubbing"
      [] o \in {"tts", "create_tts"} -> "create_tts"
      [] o \in {"transcribe", "create_transcription"} -> "create_transcription"
      [] o \in {"translate", "create_translation"} -> "create_translation"
      [] o \in {"translate_tts", "create_translated_tts"} -> "create_translated_tts"
      [] o = "create_custom_voice" -> "create_custom_voice"
      [] o \in {"pip_dub", "pip_start_dubbing"} -> "pip_start_dubbing"

\* The task kind an orchestration passes to get_task_status.
TaskKind(o) ==
    CASE o \in {"dub", "pip_dub"} -> "dubbing"
      [] o = "tts" -> "tts"
      [] o = "transcribe" -> "transcription"
      [] o = "translate" -> "translation"
      [] o = "translate_tts" -> "translated_tts"

\* The parameters of each submitter (the ones its code reads).
ArgsOf(s) ==
    CASE s \in {"start_dubbing", "pip_start_dubbing"} ->
            [source_language : LanguageInputs, target_language : LanguageInputs]
      [] s = "create_tts" ->
            [language : LanguageInputs, gender : GenderInputs]
      [] s = "create_transcription" ->
            [language : LanguageInputs, file : {"voice.wav", "missing.wav", "notes.txt"}]
      [] s \in {"create_translation", "create_translated_tts"} ->
            [source_language : LanguageInputs, target_language : LanguageInputs,
             formality : FormalityInputs, gender : GenderInputs]
      [] s = "create_custom_voice" ->
            [gender : GenderInputs, file : FileInputs]

NoArgs == [dropped |-> TRUE]
NoExc == [type |-> "none", msg |-> <<>>]
NoTask == [status |-> "none", run_id |-> NoRun]
NoResult == "no value"
NoOpts == [unread |-> TRUE]

\* ------------------------------------------------------ local validation

\* not 1 <= language <= 148
LanguageOutOfRange(language) == ~(1 <= language /\ language <= 148)

\* A formality check with one code too many in its set.
FormalityInvalid_Loose(formality) == ~IsNone(formality) /\ The(formality) \notin {1, 2, 3}

\* (formality is not None) and (formality not in {1, 2})
FormalityInvalid(formality) == ~IsNone(formality) /\ The(formality) \notin {1, 2}

\* isinstance(gender, int) in place of isinstance(gender, Gender): a bare int
\* passes, as the members of the IntEnum do.
NotGenderInstance_AnyInt(gender) == gender \notin Gender \cup {"int 1"}

\* not isinstance(gender, Gender)
NotGenderInstance(gender) == gender \notin Gender

\* (gender is not None) and (not isinstance(gender, Gender))
OptionalGenderInvalid(gender) == gender # "None" /\ NotGenderInstance(gender)

\* not file.endswith(".wav")
NotWav(file) == file \notin {"voice.wav", "missing.wav"}

Raise(type, msg) == [type |-> type, msg |-> msg]

\* start_dubbing validates nothing before it posts.
start_dubbing_checks(a) == NoExc

create_tts_checks(a) ==
    IF OptionalGenderInvalid(a.gender)
    THEN Raise("TypeError", <<"Gender must be an instance of Gender Enum.">>)
    ELSE IF LanguageOutOfRange(a.language)
    THEN Raise("ValueError", <<"Language ID must be between 1 and 148">>)
    ELSE NoExc

create_transcription_checks(a) ==
    IF LanguageOutOfRange(a.language)
    THEN Raise("ValueError", <<"Language ID must be between 1 and 148">>)
    ELSE NoExc

\* The checks of create_translation with the gender looked at first.
translation_checks_GenderFirst(name, a) ==
    IF OptionalGenderInvalid(a.gender)
    THEN Raise("TypeError", <<"Gender must be an instance of Gender Enum.">>)
    ELSE IF LanguageOutOfRange(a.source_language)
    THEN Raise("ValueError", <<name, "Source Language must be between 1 and 148">>)
    ELSE IF LanguageOutOfRange(a.target_language)
    THEN Raise("ValueError", <<name, "Target Language must be between 1 and 148">>)
    ELSE IF FormalityInvalid(a.formality)
    THEN Raise("ValueError", <<name, "formality must be one of {1, 2}">>)
    ELSE NoExc

translation_checks(name, a) ==
    IF LanguageOutOfRange(a.source_language)
    THEN Raise("ValueError", <<name, "Source Language must be between 1 and 148">>)
    ELSE IF LanguageOutOfRange(a.target_language)
    THEN Raise("ValueError", <<name, "Target Language must be between 1 and 148">>)
    ELSE IF FormalityInvalid(a.formality)
    THEN Raise("ValueError", <<name, "formality must be one of {1, 2}">>)
    ELSE IF OptionalGenderInvalid(a.gender)
    THEN Raise("TypeError", <<"Gender must be an instance of Gender Enum.">>)
    ELSE NoExc

create_custom_voice_checks(a) ==
    IF NotGenderInstance(a.gender)
    THEN Raise("TypeError", <<"Gender must be an instance of Gender Enum.">>)
    ELSE IF NotWav(a.file)
    THEN Raise("ValueError", <<"File is not a WAV file.">>)
    ELSE NoExc

\* The checks a submitter runs before it touches the session: NoExc, or the
\* first exception raised.
LocalChecks(s, a) ==
    CASE s \in {"start_dubbing", "pip_start_dubbing"} -> start_dubbing_checks(a)
      [] s = "create_tts" -> create_tts_checks(a)
      [] s = "create_transcription" -> create_transcription_checks(a)
      [] s = "create_translation" -> translation_checks("create_translation", a)
      [] s = "create_translated_tts" -> translation_checks("create_translated_tts", a)
      [] s = "create_custom_voice" -> create_custom_voice_checks(a)

\* Only the dubbing submitters touch the session headers.
SetsJsonHeader_DubbingOnly(s) == s \in {"start_dubbing", "pip_start_dubbing"}

\* The submitters that set Content-Type on the session before posting JSON.
SetsJsonHeader(s) ==
    s \in {"start_dubbing", "pip_start_dubbing", "create_tts",
           "create_translation", "create_translated_tts"}

\* The submitters that open a local file for a multipart upload.
OpensFile(s) == s \in {"create_transcription", "create_custom_voice"}

\* The endpoint a submitter posts to.
SubmitEndpoint(s) ==
    CASE s \in {"start_dubbing", "pip_start_dubbing"} -> "end_to_end_dubbing"
      [] s = "create_tts" -> "tts"
      [] s = "create_transcription" -> "create_transcription"
      [] s = "create_translation" -> "create_translation"
      [] s = "create_translated_tts" -> "create_translated_tts"
      [] s = "create_custom_voice" -> "create_custom_voice"

\* A client that prints the failure and carries on as if nothing had failed.
HttpFailure_Swallowed(o, http) == NoExc

\* A client that raises its APIError on a non-200 response.
HttpFailure_AsAPIError(o, http) == Raise("APIError", <<http>>)

\* What a non-200 response raises: sys.exit(1) in cambai, raise_for_status()
\* in camb_ai_pip.
HttpFailure(o, http) ==
    IF o \in PipOps
    THEN Raise("HTTPError", <<http>>)
    ELSE Raise("SystemExit", <<1>>)

\* math.ceil(polling_interval), the interval given in tenths of a second.
Ceil(tenths) == IF tenths % 10 = 0 THEN tenths \div 10 ELSE (tenths \div 10) + 1

\* ------------------------------------------------------------------ state

VARIABLES
    api_key,     \* the api_key argument of the constructor
    environ,     \* CAMB_API_KEY in the environment of the constructor
    headers,     \* self.session.headers: header name -> value
    calls,       \* calls made on the client so far
    op,          \* the method being run (or that ran last)
    args,        \* the submitter's parameters; dropped once it has returned
                 \* into an orchestration, which never reads them again
    interval,    \* polling_interval of the call, in tenths of a second
    pc,          \* where the call stands
    task_id,     \* response["task_id"] of the submission
    task,        \* the local `task`: the last status response read
    hist,        \* the status requests of this call and their answers
    ticks_left,  \* iterations left in the sleep loop
    slept,       \* tenths of a second slept since the last status request
    submits,     \* the submission requests of this call
    fetched,     \* the result-fetch requests of this call
    exc,         \* the exception that ended the call, or NoExc
    result,      \* the value the call returned, or NoResult
    opts,        \* the options the call has read after its first 200 GET
    made,        \* the directories this call created
    written,     \* the files this call wrote: path -> content
    frames       \* the local variables of two calls that run in two threads

vars == <<frames, api_key, environ, headers, calls, op, args, interval, pc, task_id, task, hist,
          ticks_left, slept, submits, fetched, exc, result,
          opts, made, written>>

\* Two threads of the caller, and the locals of a call not yet made.
Threads == {1, 2}
NotCalled ==
    [op |-> "none", pc |-> "idle", output_directory |-> NoneVal,
     task_id |-> "none", task |-> NoTask, asked |-> {}, got |-> {},
     last |-> [req |-> "none", http |-> 200], exc |-> NoExc]

\* An absent key: api_key=None, os.getenv returning None.
NoKey == "None"
ApiKey == "key-1"
KeyArguments == {NoKey, ApiKey}
EnvironKeys == {NoKey, "key-2"}

\* The constructor with the environment's key put before its argument.
ResolvedKey_EnvironFirst(k, e) == IF e # NoKey THEN e ELSE k

\* if api_key is None: api_key = os.getenv("CAMB_API_KEY")
ResolvedKey(k, e) == IF k # NoKey THEN k ELSE e

\* The headers of a client that has no session.
NoSession == <<>>

\* CambAI.__init__(api_key=k) with CAMB_API_KEY = e: a fresh session that
\* carries the key, or APIKeyMissingError and no client to call.
Constructed(k, e) ==
    /\ api_key = k
    /\ environ = e
    /\ IF ResolvedKey(k, e) = NoKey
       THEN /\ headers = NoSession
            /\ exc = Raise("APIKeyMissingError",
                           <<"All methods require a Camb AI API key.">>)
            /\ pc = "no client"
       ELSE /\ headers = [h \in {"x-api-key"} |-> ResolvedKey(k, e)]
            /\ exc = NoExc
            /\ pc = "idle"
    /\ calls = 0
    /\ op = "none"
    /\ args = NoArgs
    /\ interval = 0
    /\ task_id = "none"
    /\ task = NoTask
    /\ hist = <<>>
    /\ ticks_left = 0
    /\ slept = 0
    /\ submits = <<>>
    /\ fetched = <<>>
    /\ result = NoResult
    /\ opts = NoOpts
    /\ made = {}
    /\ written = <<>>
    /\ frames = [th \in Threads |-> NotCalled]

\* A client constructed with an explicit key.
Init == Constructed(ApiKey, NoKey)

\* A client constructed with any argument in any environment.
InitAnyKey == \E k \in KeyArguments, e \in EnvironKeys : Constructed(k, e)

\* self.session.headers = {"Content-Type": ...}: the headers replaced.
WithJsonHeader_Replaces(h) == [n \in {"Content-Type"} |-> "application/json"]

\* self.session.headers["Content-Type"] = "application/json"
WithJsonHeader(h) ==
    [n \in DOMAIN h \cup {"Content-Type"} |->
        IF n = "Content-Type" THEN "application/json" ELSE h[n]]

\* A submitter that sets Content-Type before it checks its parameters.
SessionHeaders_BeforeChecks(s, chk, h) ==
    IF SetsJsonHeader(s) THEN WithJsonHeader(h) ELSE h

\* The session headers a submitter leaves: Content-Type is set after the
\* checks have passed, by the submitters that post JSON.
SessionHeaders(s, chk, h) ==
    IF chk = NoExc /\ SetsJsonHeader(s) THEN WithJsonHeader(h) ELSE h

\* A call that notes the failure and runs the same step again.
Raises_Retries(e) ==
    /\ exc' = e
    /\ pc' = pc

\* The call ends by raising e.
Raises(e) ==
    /\ exc' = e
    /\ pc' = "done"

\* A get_task_status that sends its request twice.
Recorded_Twice(h, entry) ==
    IF Len(h) + 1 < MaxHist THEN Append(Append(h, entry), entry)
    ELSE IF Len(h) < MaxHist THEN Append(h, entry)
    ELSE h

\* hist, with one more status request and its answer; a full record is kept
\* as it is.
Recorded(h, entry) == IF Len(h) < MaxHist THEN Append(h, entry) ELSE h

\* The caller invokes a method of the client.
Call ==
    /\ pc \in {"idle", "done"}
    /\ calls < MaxCalls
    /\ \E o \in Ops :
       \E i \in (IF o \in Orchestrations THEN IntervalInputs ELSE {0}) :
          /\ op' = o
          /\ interval' = i
    /\ calls' = calls + 1
    /\ pc' = "submit"
    /\ args' = NoArgs
    /\ task_id' = "none"
    /\ task' = NoTask
    /\ hist' = <<>>
    /\ ticks_left' = 0
    /\ slept' = 0
    /\ submits' = <<>>
    /\ fetched' = <<>>
    /\ exc' = NoExc
    /\ result' = NoResult
    /\ opts' = NoOpts
    /\ made' = {}
    /\ written' = <<>>
    /\ UNCHANGED <<frames, api_key, environ, headers>>

\* The submitter, run with the parameters a: its local checks, then the POST
\* and what the service answers to it (http, and the task_id of a 200). An
\* orchestration goes on to poll the task it was given.
SubmitWith(a, http, tid) ==
    /\ pc = "submit"
    /\ LET s == SubmitterOf(op)
           chk == LocalChecks(s, a)
       IN IF chk # NoExc
          THEN /\ Raises(chk)
               /\ args' = a
               /\ headers' = SessionHeaders(s, chk, headers)
               /\ UNCHANGED <<task_id, submits, result>>
          ELSE IF OpensFile(s) /\ a.file \notin ExistingFiles
          THEN \* open() raises FileNotFoundError; the handler exits
               /\ Raises(Raise("SystemExit", <<1>>))
               /\ args' = a
               /\ UNCHANGED <<headers, task_id, submits, result>>
          ELSE /\ headers' = SessionHeaders(s, chk, headers)
               /\ submits' = Append(submits,
                     [ep |-> SubmitEndpoint(s), http |-> http,
                      headers |-> DOMAIN headers',
                      task_id |-> IF http = 200 THEN tid ELSE "none"])
               /\ IF http # 200
                  THEN /\ Raises(HttpFailure(op, http))
                       /\ args' = a
                       /\ UNCHANGED <<task_id, result>>
                  ELSE IF op \in Orchestrations
                  THEN /\ task_id' = tid
                       /\ args' = NoArgs
                       /\ pc' = "poll"
                       /\ UNCHANGED <<exc, result>>
                  ELSE /\ result' = tid
                       /\ args' = a
                       /\ pc' = "done"
                       /\ UNCHANGED <<task_id, exc>>
    /\ UNCHANGED <<frames, api_key, environ, calls, op, interval, task, hist,
                   ticks_left, slept, fetched, opts, made, written>>

Submit ==
    /\ pc = "submit"
    /\ op \in Orchestrations \cup Submitters
    /\ \E a \in ArgsOf(SubmitterOf(op)), http \in HttpCodes, tid \in TaskIds :
          SubmitWith(a, http, tid)

\* --------------------------------------------------------------- polling

\* The text an orchestration puts before the status in its APIError.
IssuePrefix(o) ==
    CASE o \in {"dub", "pip_dub", "translate_tts"} -> "Dubbing Issue: "
      [] o = "tts" -> "Issue with TTS: "
      [] o = "transcribe" -> "Transcription Issue: "
      [] o = "translate" -> "Translation Issue: "

\* An error that names the status and leaves the run_id out.
TaskIssue_StatusOnly(o, t) == Raise("APIError", <<IssuePrefix(o), t.status>>)

\* An error that does not say which status ended the task.
TaskIssue_Unnamed(o, t) == Raise("APIError", <<IssuePrefix(o)>>)

\* A tts loop that leaves on a failed task without raising.
TaskIssue_TtsSilent(o, t) ==
    IF o = "tts"
    THEN NoExc
    ELSE Raise("APIError", <<IssuePrefix(o), t.status, " for Run ID: ", t.run_id>>)

\* f"{prefix}{task['status']} for Run ID: {task['run_id']}"
TaskIssue(o, t) == Raise("APIError", <<IssuePrefix(o), t.status, " for Run ID: ", t.run_id>>)

RunIdIsNone == Raise("APIError", <<"Run ID is None">>)

\* The kinds of task get_task_status knows.
TaskKinds == {"dubbing", "tts", "transcription", "translation", "translated_tts"}

\* The task kinds a caller may pass: the five, and one that is none of them.
TaskKindInputs == TaskKinds \cup {"voice"}

\* Every status asked of the dubbing endpoint.
StatusEndpoint_Dubbing(kind) == "end_to_end_dubbing"

\* The endpoint get_task_status asks for a task of this kind; the task_id is
\* appended to it.
StatusEndpoint(kind) ==
    CASE kind = "dubbing" -> "end_to_end_dubbing"
      [] kind = "tts" -> "tts"
      [] kind = "transcription" -> "create_transcription"
      [] kind = "translation" -> "create_translation"
      [] kind = "translated_tts" -> "create_translated_tts"

\* A status request that asks for one task, whatever was submitted.
StatusRequest_FirstTask(o, id, http, t) ==
    [kind |-> TaskKind(o), ep |-> StatusEndpoint(TaskKind(o)), key |-> "t1",
     http |-> http,
     status |-> IF http = 200 THEN t.status ELSE "none",
     run_id |-> IF http = 200 THEN t.run_id ELSE NoRun]

\* A status request that asks by the run_id last seen.
StatusRequest_ByRunId(o, id, http, t) ==
    [kind |-> TaskKind(o), ep |-> StatusEndpoint(TaskKind(o)), key |-> t.run_id,
     http |-> http,
     status |-> IF http = 200 THEN t.status ELSE "none",
     run_id |-> IF http = 200 THEN t.run_id ELSE NoRun]

\* One status request as hist keeps it.
StatusRequest(o, id, http, t) ==
    [kind |-> TaskKind(o), ep |-> StatusEndpoint(TaskKind(o)), key |-> id,
     http |-> http,
     status |-> IF http = 200 THEN t.status ELSE "none",
     run_id |-> IF http = 200 THEN t.run_id ELSE NoRun]

\* A loop that forgets ERROR among the statuses it raises on.
IsFailureStatus_NoError(status) == status \notin {"SUCCESS", "PENDING", "ERROR"}

\* A loop that gives up on the first PENDING.
IsFailureStatus_Pending(status) == status # "SUCCESS"

\* The statuses on which the loop raises: not in ["SUCCESS", "PENDING"].
IsFailureStatus(status) == status \notin {"SUCCESS", "PENDING"}

\* A loop that rounds the interval down.
SleepTicks_Floor(tenths) == IF tenths > 0 THEN tenths \div 10 ELSE 0

\* range(math.ceil(polling_interval)): how many sleep(1) the loop runs.
SleepTicks(tenths) == IF Ceil(tenths) > 0 THEN Ceil(tenths) ELSE 0

\* What hist keeps of an answer inside the loop: the loop never reads the
\* run_id of a PENDING answer, and it is not recorded.
LoopRead(t) == IF t.status = "PENDING" THEN [t EXCEPT !.run_id = "unread"] ELSE t

\* One turn of `while True`: get_task_status and the branches under it, the
\* service answering http and, when that is 200, the status object t.
LoopPoll(http, t) ==
    /\ pc = "poll"
    /\ hist' = Recorded(hist, StatusRequest(op, task_id, http, LoopRead(t)))
    /\ slept' = 0
    /\ IF http # 200
       THEN /\ Raises(HttpFailure(op, http))
            /\ UNCHANGED <<task, ticks_left>>
       ELSE /\ task' = t
            /\ IF t.status = "SUCCESS"
               THEN /\ pc' = "final"
                    /\ UNCHANGED <<exc, ticks_left>>
               ELSE IF IsFailureStatus(t.status)
               THEN /\ Raises(TaskIssue(op, t))
                    /\ UNCHANGED ticks_left
               ELSE IF op = "pip_dub"
               THEN /\ pc' = "sleep"
                    /\ UNCHANGED <<exc, ticks_left>>
               ELSE /\ ticks_left' = SleepTicks(interval)
                    /\ pc' = IF SleepTicks(interval) = 0 THEN "poll" ELSE "sleep"
                    /\ UNCHANGED exc
    /\ UNCHANGED <<frames, api_key, environ, headers, calls, op, args, interval, task_id, submits,
                   fetched, result,
                   opts, made, written>>

StatusObjects == [status : Statuses, run_id : RunIds \cup {NoRun}]

\* The status object chosen when the service sends none.
NoAnswer == [status |-> "PENDING", run_id |-> NoRun]

\* The service says the task is still running.
PollPending ==
    \E t \in StatusObjects : t.status = "PENDING" /\ LoopPoll(200, t)

\* The service gives any other answer, a failed request included.
PollSettled ==
    \E http \in HttpCodes, t \in StatusObjects :
        /\ http # 200 \/ t.status # "PENDING"
        /\ http # 200 => t = [status |-> "PENDING", run_id |-> NoRun]
        /\ LoopPoll(http, t)

\* sleep(1), once per iteration of the tqdm loop (cambai).
SleepTick ==
    /\ pc = "sleep"
    /\ op # "pip_dub"
    /\ ticks_left > 0
    /\ ticks_left' = ticks_left - 1
    /\ slept' = slept + 10
    /\ pc' = IF ticks_left = 1 THEN "poll" ELSE "sleep"
    /\ UNCHANGED <<frames, api_key, environ, headers, calls, op, args, interval, task_id, task, hist,
                   submits, fetched, exc, result,
                   opts, made, written>>

\* sleep(polling_interval) (camb_ai_pip); time.sleep rejects a negative length.
SleepInterval ==
    /\ pc = "sleep"
    /\ op = "pip_dub"
    /\ IF interval < 0
       THEN /\ Raises(Raise("ValueError", <<"sleep length must be non-negative">>))
            /\ UNCHANGED slept
       ELSE /\ slept' = interval
            /\ pc' = "poll"
            /\ UNCHANGED exc
    /\ UNCHANGED <<frames, api_key, environ, headers, calls, op, args, interval, task_id, task, hist,
                   ticks_left, submits, fetched, result,
                   opts, made, written>>

\* After the loop: get_task_status once more, and the check of its run_id.
FinalPoll ==
    /\ pc = "final"
    /\ \E http \in HttpCodes, t \in StatusObjects :
        /\ http # 200 => t = [status |-> "PENDING", run_id |-> NoRun]
        /\ hist' = Recorded(hist, StatusRequest(op, task_id, http, t))
        /\ IF http # 200
           THEN /\ Raises(HttpFailure(op, http))
                /\ UNCHANGED task
           ELSE /\ task' = t
                /\ IF t.run_id = NoRun
                   THEN Raises(RunIdIsNone)
                   ELSE /\ pc' = "fetch"
                        /\ UNCHANGED exc
    /\ UNCHANGED <<frames, api_key, environ, headers, calls, op, args, interval, task_id, ticks_left,
                   slept, submits, fetched, result,
                   opts, made, written>>

\* ----------------------------------------------------------- result fetch

\* A translated-TTS fetcher that asks for the text first.
FetchEndpoint_TextFirst(o) ==
    CASE o \in {"dub", "pip_dub"} -> "dubbed_run_info"
      [] o = "tts" -> "tts_result"
      [] o = "transcribe" -> "transcription_result"
      [] o \in {"translate", "translate_tts"} -> "translation_result"

\* Every fetcher pasted from the dubbing one, endpoint and all.
FetchEndpoint_Dubbing(o) == "dubbed_run_info"

\* The endpoint of the first GET of an orchestration's result fetcher.
FetchEndpoint(o) ==
    CASE o \in {"dub", "pip_dub"} -> "dubbed_run_info"
      [] o \in {"tts", "translate_tts"} -> "tts_result"
      [] o = "transcribe" -> "transcription_result"
      [] o = "translate" -> "translation_result"

FetchRequest(ep, run_id, http, payload) ==
    [ep |-> ep, run_id |-> run_id, http |-> http,
     payload |-> IF http = 200 THEN payload ELSE "none"]

\* An orchestration that fetches the result and forgets to return it.
Returned_Nothing(o, payload) == "None"

\* What the orchestration returns once its fetcher got payload: tts returns
\* what get_tts_result returns, which is None.
Returned(o, payload) == IF o = "tts" THEN "None" ELSE payload

\* The options a result fetcher reads after its GET returned 200;
\* get_translated_tts_result reads save_to_file after its second GET.
OptsOf(o) ==
    CASE o \in {"dub", "pip_dub"} -> {NoOpts}
      [] o = "tts" -> [output_directory : DirectoryInputs]
      [] o \in {"transcribe", "translate"} -> [save_to_file : BOOLEAN]
      [] o = "translate_tts" -> [output_directory : DirectoryInputs]

\* What a 200 response of an endpoint carries: a stream of audio chunks, or a
\* JSON payload.
BodiesOf(ep) == IF ep = "tts_result" THEN Streams ELSE Payloads

\* f"{output_directory}": None is formatted as the text None.
DirName(d) == IF IsNone(d) THEN "None" ELSE The(d)

\* f"{output_directory}/tts_stream_{run_id}.wav"
AudioPath(d, run_id) == <<DirName(d), "tts_stream_", run_id, ".wav">>

\* The file a result fetcher saves JSON or text to.
SavedPath(o, run_id) ==
    IF o = "transcribe"
    THEN <<"transcription_result_", run_id, ".json">>
    ELSE <<"translation_result_", run_id, ".txt">>

\* What a result fetcher saves: json.dump of the payload, or the two header
\* lines and the text of a translation.
SavedContent(o, run_id, payload) ==
    IF o = "transcribe"
    THEN <<payload>>
    ELSE <<"Camb AI Translation Result\n", "Run ID: ", run_id, "\n", payload>>

\* A loop that opens the file anew for every chunk: the last chunk stays.
WriteAll_LastChunk(content, stream) ==
    IF stream = <<>> THEN content ELSE stream[Len(stream)]

\* for chunk in response.iter_content(...): audio_file.write(chunk)
RECURSIVE WriteAll(_, _)
WriteAll(content, stream) ==
    IF stream = <<>>
    THEN content
    ELSE WriteAll(content \o Head(stream), Tail(stream))

\* open(path, "w") or "wb", the writes, and close: the file holds content.
Put(files, path, content) ==
    [q \in DOMAIN files \cup {path} |-> IF q = path THEN content ELSE files[q]]

\* The part of get_tts_result after its GET returned 200: makedirs when the
\* directory is given and missing, then the file opened and written chunk by
\* chunk; open() raises when the directory of the path does not exist.
SaveAudio(d, exists, run_id, stream) ==
    /\ made' = IF ~IsNone(d) /\ ~exists THEN made \cup {The(d)} ELSE made
    /\ IF IsNone(d) /\ ~exists
       THEN /\ Raises(Raise("FileNotFoundError", AudioPath(d, run_id)))
            /\ UNCHANGED written
       ELSE written' = Put(written, AudioPath(d, run_id), WriteAll(<<>>, stream))

\* The result fetcher's GET, keyed by task["run_id"], and what the fetcher
\* does with a 200; get_translated_tts_result goes on to a second GET.
Fetch ==
    /\ pc = "fetch"
    /\ LET ep == FetchEndpoint(op)
           run_id == task.run_id
       IN \/ \E http \in HttpCodes \ {200} :
               /\ fetched' = Append(fetched, FetchRequest(ep, run_id, http, "none"))
               /\ Raises(HttpFailure(op, http))
               /\ UNCHANGED <<result, opts, made, written>>
          \/ \E o \in OptsOf(op), body \in BodiesOf(ep),
                exists \in (IF ep = "tts_result" THEN BOOLEAN ELSE {TRUE}) :
               /\ fetched' = Append(fetched, FetchRequest(ep, run_id, 200, body))
               /\ opts' = o
               /\ IF ep = "tts_result"
                  THEN /\ SaveAudio(o.output_directory, exists, run_id, body)
                       /\ IF IsNone(o.output_directory) /\ ~exists
                          THEN UNCHANGED result
                          ELSE IF op = "translate_tts"
                          THEN /\ pc' = "fetch_text"
                               /\ UNCHANGED <<exc, result>>
                          ELSE /\ result' = Returned(op, body)
                               /\ pc' = "done"
                               /\ UNCHANGED exc
                  ELSE /\ written' =
                             IF op \in {"transcribe", "translate"} /\ o.save_to_file
                             THEN Put(written, SavedPath(op, run_id),
                                      SavedContent(op, run_id, body))
                             ELSE written
                       /\ result' = Returned(op, body)
                       /\ pc' = "done"
                       /\ UNCHANGED <<exc, made>>
    /\ UNCHANGED <<frames, api_key, environ, headers, calls, op, args, interval, task_id, task, hist,
                   ticks_left, slept, submits>>

\* get_translation_result inside get_translated_tts_result.
FetchText ==
    /\ pc = "fetch_text"
    /\ \/ \E http \in HttpCodes \ {200} :
            /\ fetched' = Append(fetched,
                                 FetchRequest("translation_result", task.run_id, http, "none"))
            /\ Raises(HttpFailure(op, http))
            /\ UNCHANGED <<result, opts, written>>
       \/ \E payload \in Payloads, save_to_file \in BOOLEAN :
            /\ fetched' = Append(fetched,
                                 FetchRequest("translation_result", task.run_id, 200, payload))
            /\ opts' = [output_directory |-> opts.output_directory,
                        save_to_file |-> save_to_file]
            /\ written' =
                  IF save_to_file
                  THEN Put(written, SavedPath(op, task.run_id),
                           SavedContent(op, task.run_id, payload))
                  ELSE written
            /\ result' = Returned(op, payload)
            /\ pc' = "done"
            /\ UNCHANGED exc
    /\ UNCHANGED <<frames, api_key, environ, headers, calls, op, args, interval, task_id, task, hist,
                   ticks_left, slept, submits, made>>

\* Every language list is asked of the source-language endpoint.
ListEndpoint_SourceOnly(o, language_type) ==
    IF o \in {"get_languages", "pip_get_languages"}
    THEN "source_languages"
    ELSE "list_voices"

\* The endpoint a listing method asks: get_languages asks for the source or
\* the target languages.
ListEndpoint(o, language_type) ==
    IF o \in {"get_languages", "pip_get_languages"}
    THEN IF language_type = "source" THEN "source_languages" ELSE "target_languages"
    ELSE "list_voices"

\* The parameters of a listing method; get_all_voices of the older client
\* has none.
ListOptsOf(o) ==
    CASE o \in {"get_languages", "pip_get_languages"} ->
            [language_type : {"source", "target"}, write_to_file : BOOLEAN]
      [] o = "get_all_voices" -> [write_to_file : BOOLEAN]
      [] o = "pip_get_all_voices" -> {NoOpts}

\* The file a listing method writes its list to.
ListPath(o, w) ==
    IF o = "get_all_voices" THEN <<"voices.json">>
    ELSE <<w.language_type, "_languages.json">>

\* get_languages and get_all_voices: one GET, the list written to a file when
\* asked, and the list returned.
List ==
    /\ pc = "submit"
    /\ op \in Listings
    /\ \E w \in ListOptsOf(op), http \in HttpCodes, payload \in Payloads :
        /\ opts' = w
        /\ fetched' = Append(fetched,
                            FetchRequest(ListEndpoint(op, IF "language_type" \in DOMAIN w
                                                          THEN w.language_type
                                                          ELSE "none"),
                                         "none", http, payload))
        /\ IF http # 200
           THEN /\ Raises(HttpFailure(op, http))
                /\ UNCHANGED <<result, written>>
           ELSE /\ written' = IF w # NoOpts /\ w.write_to_file
                              THEN Put(written, ListPath(op, w), <<payload>>)
                              ELSE written
                /\ result' = payload
                /\ pc' = "done"
                /\ UNCHANGED exc
    /\ UNCHANGED <<frames, api_key, environ, headers, calls, op, args, interval, task_id,
                   task, hist, ticks_left, slept, submits, made>>

\* get_task_status run on its own, with a task kind and a task_id of the
\* caller: the endpoint is chosen by the kind, or ValueError is raised before
\* any request; then one GET, and the status object is returned.
GetTaskStatus ==
    /\ pc = "submit"
    /\ op \in StatusQueries
    /\ \E kind \in TaskKindInputs, id \in TaskIds, http \in HttpCodes,
          t \in StatusObjects :
        /\ opts' = [task |-> kind, task_id |-> id]
        /\ IF kind \notin TaskKinds
           THEN /\ http = 200 /\ t = NoAnswer
                /\ Raises(Raise("ValueError", <<"Invalid task type">>))
                /\ UNCHANGED <<hist, task, result>>
           ELSE /\ http # 200 => t = NoAnswer
                /\ hist' = Append(hist,
                        [kind |-> kind, ep |-> StatusEndpoint(kind), key |-> id,
                         http |-> http,
                         status |-> IF http = 200 THEN t.status ELSE "none",
                         run_id |-> IF http = 200 THEN t.run_id ELSE NoRun])
                /\ IF http # 200
                   THEN /\ Raises(HttpFailure(op, http))
                        /\ UNCHANGED <<task, result>>
                   ELSE /\ task' = t
                        /\ result' = t
                        /\ pc' = "done"
                        /\ UNCHANGED exc
    /\ UNCHANGED <<frames, api_key, environ, headers, calls, op, args, interval, task_id,
                   ticks_left, slept, submits, fetched, made, written>>

Next ==
    \/ Call
    \/ Submit
    \/ List
    \/ GetTaskStatus
    \/ PollPending
    \/ PollSettled
    \/ SleepTick
    \/ SleepInterval
    \/ FinalPoll
    \/ Fetch
    \/ FetchText

Spec == Init /\ [][Next]_vars

\* The same client, however it was constructed.
SpecAnyKey == InitAnyKey /\ [][Next]_vars

\* ------------------------------------------- two calls on one client object

\* The other thread.
Other(th) == CHOOSE o \in Threads : o # th

\* The run the service made for a task, reported in the task's status.
RunOf(tid) == IF tid = "t1" THEN "r1" ELSE "r2"

\* The status objects the service sends for a task.
StatusObjectsOf(tid) == [status : Statuses, run_id : {NoRun, RunOf(tid)}]

\* The locals of thread th become f; the other thread's are its own.
Locals(th, f) == frames' = [frames EXCEPT ![th] = f]

\* The call of thread th ends by raising e after the answer http to req.
Ended(f, req, http, e) ==
    [f EXCEPT !.pc = "done", !.last = [req |-> req, http |-> http], !.exc = e]

\* Thread th calls an orchestration with parameters that pass the local
\* checks: the submitter sets the header of the session and posts, and the
\* service answers with the id of a new task.
PairSubmit(th) ==
    /\ frames[th].pc = "idle"
    /\ \E o \in CambOrchestrations, http \in HttpCodes,
          tid \in TaskIds \ {frames[Other(th)].task_id} :
        /\ headers' = IF SetsJsonHeader(SubmitterOf(o))
                      THEN WithJsonHeader(headers)
                      ELSE headers
        /\ \E d \in (IF o \in {"tts", "translate_tts"} THEN DirectoryInputs
                                                       ELSE {NoneVal}) :
            LET f == [frames[th] EXCEPT !.op = o, !.output_directory = d]
            IN IF http # 200
               THEN Locals(th, Ended(f, "submit", http, HttpFailure(o, http)))
               ELSE Locals(th, [f EXCEPT !.pc = "poll", !.task_id = tid,
                                         !.last = [req |-> "submit", http |-> 200]])
    /\ UNCHANGED <<api_key, environ, calls, op, args, interval, pc, task_id, task,
                   hist, ticks_left, slept, submits, fetched, exc, result, opts,
                   made, written>>

\* One turn of the loop of thread th, its sleep included.
PairPoll(th) ==
    /\ frames[th].pc = "poll"
    /\ LET f == [frames[th] EXCEPT !.asked = @ \cup {frames[th].task_id}]
       IN \E http \in HttpCodes, t \in StatusObjectsOf(frames[th].task_id) :
            /\ http # 200 => t = NoAnswer
            /\ IF http # 200
               THEN Locals(th, Ended(f, "poll", http, HttpFailure(f.op, http)))
               ELSE IF t.status = "SUCCESS"
               THEN Locals(th, [f EXCEPT !.pc = "final", !.task = t,
                                         !.last = [req |-> "poll", http |-> 200]])
               ELSE IF IsFailureStatus(t.status)
               THEN Locals(th, Ended([f EXCEPT !.task = t], "poll", 200,
                                     TaskIssue(f.op, t)))
               ELSE Locals(th, [f EXCEPT !.task = t,
                                         !.last = [req |-> "poll", http |-> 200]])
    /\ UNCHANGED <<api_key, environ, headers, calls, op, args, interval, pc, task_id,
                   task, hist, ticks_left, slept, submits, fetched, exc, result,
                   opts, made, written>>

\* The status request of thread th after its loop.
PairFinalPoll(th) ==
    /\ frames[th].pc = "final"
    /\ LET f == [frames[th] EXCEPT !.asked = @ \cup {frames[th].task_id}]
       IN \E http \in HttpCodes, t \in StatusObjectsOf(frames[th].task_id) :
            /\ http # 200 => t = NoAnswer
            /\ IF http # 200
               THEN Locals(th, Ended(f, "final", http, HttpFailure(f.op, http)))
               ELSE IF t.run_id = NoRun
               THEN Locals(th, Ended([f EXCEPT !.task = t], "final", 200, RunIdIsNone))
               ELSE Locals(th, [f EXCEPT !.pc = "fetch", !.task = t,
                                         !.last = [req |-> "final", http |-> 200]])
    /\ UNCHANGED <<api_key, environ, headers, calls, op, args, interval, pc, task_id,
                   task, hist, ticks_left, slept, submits, fetched, exc, result,
                   opts, made, written>>

\* The first GET of the result fetcher of thread th; a fetcher of JSON saves
\* it when asked and returns.
PairFetch(th) ==
    /\ frames[th].pc = "fetch"
    /\ LET f == [frames[th] EXCEPT !.got = @ \cup {frames[th].task.run_id}]
           run_id == frames[th].task.run_id
       IN \E http \in HttpCodes, save_to_file \in BOOLEAN :
            IF http # 200
            THEN /\ ~save_to_file
                 /\ Locals(th, Ended(f, "fetch", http, HttpFailure(f.op, http)))
                 /\ UNCHANGED written
            ELSE IF FetchEndpoint(f.op) = "tts_result"
            THEN /\ ~save_to_file
                 /\ Locals(th, [f EXCEPT !.pc = "exists",
                                         !.last = [req |-> "fetch", http |-> 200]])
                 /\ UNCHANGED written
            ELSE /\ save_to_file => f.op \in {"transcribe", "translate"}
                 /\ written' = IF save_to_file
                               THEN Put(written, SavedPath(f.op, run_id),
                                        SavedContent(f.op, run_id, "p1"))
                               ELSE written
                 /\ Locals(th, Ended(f, "fetch", 200, NoExc))
    /\ UNCHANGED <<api_key, environ, headers, calls, op, args, interval, pc, task_id,
                   task, hist, ticks_left, slept, submits, fetched, exc, result,
                   opts, made>>

\* if (output_directory is not None) and (not os.path.exists(...)), in
\* thread th.
PairExists(th) ==
    /\ frames[th].pc = "exists"
    /\ LET f == frames[th]
       IN IF ~IsNone(f.output_directory) /\ The(f.output_directory) \notin made
          THEN Locals(th, [f EXCEPT !.pc = "makedirs"])
          ELSE Locals(th, [f EXCEPT !.pc = "open"])
    /\ UNCHANGED <<api_key, environ, headers, calls, op, args, interval, pc, task_id,
                   task, hist, ticks_left, slept, submits, fetched, exc, result,
                   opts, made, written>>

\* os.makedirs(output_directory) in thread th: FileExistsError when the
\* directory is there.
PairMakedirs(th) ==
    /\ frames[th].pc = "makedirs"
    /\ LET f == frames[th]
       IN IF The(f.output_directory) \in made
          THEN /\ Locals(th, Ended(f, "fetch", 200,
                                   Raise("FileExistsError", <<The(f.output_directory)>>)))
               /\ UNCHANGED made
          ELSE /\ made' = made \cup {The(f.output_directory)}
               /\ Locals(th, [f EXCEPT !.pc = "open"])
    /\ UNCHANGED <<api_key, environ, headers, calls, op, args, interval, pc, task_id,
                   task, hist, ticks_left, slept, submits, fetched, exc, result,
                   opts, written>>

\* open(file_path, "wb") and the writes of the chunks, in thread th; no
\* directory is named None.
PairWrite(th) ==
    /\ frames[th].pc = "open"
    /\ LET f == frames[th]
           path == AudioPath(f.output_directory, f.task.run_id)
       IN IF IsNone(f.output_directory)
          THEN /\ Locals(th, Ended(f, "fetch", 200, Raise("FileNotFoundError", path)))
               /\ UNCHANGED written
          ELSE \E stream \in Streams :
                /\ written' = Put(written, path, WriteAll(<<>>, stream))
                /\ IF f.op = "translate_tts"
                   THEN Locals(th, [f EXCEPT !.pc = "fetch_text"])
                   ELSE Locals(th, Ended(f, "fetch", 200, NoExc))
    /\ UNCHANGED <<api_key, environ, headers, calls, op, args, interval, pc, task_id,
                   task, hist, ticks_left, slept, submits, fetched, exc, result,
                   opts, made>>

\* get_translation_result inside get_translated_tts_result, in thread th.
PairFetchText(th) ==
    /\ frames[th].pc = "fetch_text"
    /\ LET f == frames[th]
           run_id == frames[th].task.run_id
       IN \E http \in HttpCodes, save_to_file \in BOOLEAN :
            IF http # 200
            THEN /\ ~save_to_file
                 /\ Locals(th, Ended(f, "fetch_text", http, HttpFailure(f.op, http)))
                 /\ UNCHANGED written
            ELSE /\ written' = IF save_to_file
                               THEN Put(written, SavedPath(f.op, run_id),
                                        SavedContent(f.op, run_id, "p1"))
                               ELSE written
                 /\ Locals(th, Ended(f, "fetch_text", 200, NoExc))
    /\ UNCHANGED <<api_key, environ, headers, calls, op, args, interval, pc, task_id,
                   task, hist, ticks_left, slept, submits, fetched, exc, result,
                   opts, made>>

\* One thread runs up to its next request or its next call of the system.
NextPair ==
    \E th \in Threads :
        \/ PairSubmit(th)
        \/ PairPoll(th)
        \/ PairFinalPoll(th)
        \/ PairFetch(th)
        \/ PairExists(th)
        \/ PairMakedirs(th)
        \/ PairWrite(th)
        \/ PairFetchText(th)

\* Two threads that each run one orchestration on the same client.
SpecPair == Init /\ [][NextPair]_vars

\* ------------------------------------- one call, run with and without debug

\* A status object that came without its run_id key.
MissingKey == "missing"

\* The status objects of the service, those without a run_id key included.
StatusObjectsSent == [status : Statuses, run_id : RunIds \cup {NoRun, MissingKey}]

\* task['run_id'] of a dictionary without the key.
KeyError == Raise("KeyError", <<"run_id">>)

\* `if debug: print(line)`: what the console shows after it.
DebugPrint(debug, printed, line) == IF debug THEN Append(printed, line) ELSE printed

\* A loop whose sleep sits under `if debug:` with the print before it.
LoopSleeps_OnlyInDebug(debug, tenths) == IF debug THEN SleepTicks(tenths) ELSE 0

\* The sleep(1) calls of one turn of the loop: the tqdm loop comes after the
\* `if debug:` block, not inside it.
LoopSleeps(debug, tenths) == SleepTicks(tenths)

\* A request or a sleep, as the trace of a call keeps it.
Request(req, ep, key) == [req |-> req, ep |-> ep, key |-> key, ticks |-> 0]
Slept(n) == [req |-> "sleep", ep |-> "none", key |-> "none", ticks |-> n]

\* The locals of an orchestration called with debug and polling_interval
\* i, its parameters passing the local checks, and what it has done so far:
\* the requests and sleeps (trace), the status objects received (answers)
\* and the lines of debug output (printed).
Started(debug, o, i) ==
    [debug |-> debug, op |-> o, interval |-> i, pc |-> "submit", task_id |-> "none",
     task |-> NoTask, trace |-> <<>>, answers |-> <<>>, printed |-> <<>>,
     exc |-> NoExc, result |-> NoResult]

\* The call raises e.
Raised(f, e) == [f EXCEPT !.pc = "done", !.exc = e]

\* The submitter of the call, answered http with the id tid of a new task;
\* tts announces itself first under debug.
SubmitTurn(f, http, tid) ==
    LET said == IF f.op = "tts"
                THEN [f EXCEPT !.printed = DebugPrint(f.debug, @, <<"Starting TTS process">>)]
                ELSE f
        posted == [said EXCEPT !.trace =
                      Append(@, Request("submit", SubmitEndpoint(SubmitterOf(f.op)), "none"))]
    IN IF http # 200
       THEN Raised(posted, HttpFailure(f.op, http))
       ELSE [posted EXCEPT !.pc = "poll", !.task_id = tid]

\* One turn of `while True`, answered http with the status object t: debug
\* prints task['status'] and task['run_id'] first, and the length of the
\* sleep before sleeping.
LoopTurn(f, http, t) ==
    LET asked == [f EXCEPT !.trace =
                     Append(@, Request("status", StatusEndpoint(TaskKind(f.op)), f.task_id))]
        got == [asked EXCEPT !.task = t, !.answers = Append(@, t)]
        shown == [got EXCEPT !.printed =
                     DebugPrint(f.debug, @, <<"Status: ", t.status, ", Run ID: ", t.run_id>>)]
    IN IF http # 200
       THEN Raised(asked, HttpFailure(f.op, http))
       ELSE IF f.debug /\ t.run_id = MissingKey
       THEN Raised(got, KeyError)
       ELSE IF t.status = "SUCCESS"
       THEN [shown EXCEPT !.pc = "final"]
       ELSE IF IsFailureStatus(t.status)
       THEN IF t.run_id = MissingKey
            THEN Raised(shown, KeyError)
            ELSE Raised(shown, TaskIssue(f.op, t))
       ELSE [shown EXCEPT
                !.printed = DebugPrint(f.debug, @, <<"Sleeping for ", f.interval>>),
                !.trace = Append(@, Slept(LoopSleeps(f.debug, f.interval)))]

\* The status request after the loop and the check of its run_id.
FinalTurn(f, http, t) ==
    LET asked == [f EXCEPT !.trace =
                     Append(@, Request("status", StatusEndpoint(TaskKind(f.op)), f.task_id))]
        got == [asked EXCEPT !.task = t, !.answers = Append(@, t)]
    IN IF http # 200
       THEN Raised(asked, HttpFailure(f.op, http))
       ELSE IF t.run_id = MissingKey
       THEN Raised(got, KeyError)
       ELSE IF t.run_id = NoRun
       THEN Raised(got, RunIdIsNone)
       ELSE [got EXCEPT !.pc = "fetch"]

\* The GETs of the result fetcher, which is given no debug: the first, and
\* for translate_tts the translation after the audio was written.
FetchTurn(f, http, payload) ==
    LET ep == IF f.pc = "fetch" THEN FetchEndpoint(f.op) ELSE "translation_result"
        asked == [f EXCEPT !.trace = Append(@, Request("fetch", ep, f.task.run_id))]
    IN IF http # 200
       THEN Raised(asked, HttpFailure(f.op, http))
       ELSE IF f.pc = "fetch" /\ f.op = "translate_tts"
       THEN [asked EXCEPT !.pc = "fetch_text"]
       ELSE [asked EXCEPT !.pc = "done", !.result = Returned(f.op, payload)]

\* The call with debug=False is frame 1, the call with debug=True frame 2.
Debugged(th) == th = 2

\* Some call is at the control point p.
SomeAt(p) == \E th \in Threads : frames[th].pc = p

\* An orchestration is called twice with the same parameters, once with
\* debug and once without.
DebugCall ==
    /\ \A th \in Threads : frames[th] = NotCalled
    /\ \E o \in CambOrchestrations, i \in IntervalInputs :
          frames' = [th \in Threads |-> Started(Debugged(th), o, i)]
    /\ UNCHANGED <<api_key, environ, headers, calls, op, args, interval, pc, task_id,
                   task, hist, ticks_left, slept, submits, fetched, exc, result,
                   opts, made, written>>

\* The service answers the submission, the same to both calls.
DebugSubmit ==
    /\ SomeAt("submit")
    /\ \E http \in HttpCodes, tid \in TaskIds :
          frames' = [th \in Threads |->
                        IF frames[th].pc = "submit"
                        THEN SubmitTurn(frames[th], http, tid)
                        ELSE frames[th]]
    /\ UNCHANGED <<api_key, environ, headers, calls, op, args, interval, pc, task_id,
                   task, hist, ticks_left, slept, submits, fetched, exc, result,
                   opts, made, written>>

\* The service answers a status request of the loop, the same to both calls.
DebugPoll ==
    /\ SomeAt("poll")
    /\ \A th \in Threads : Len(frames[th].answers) < MaxHist
    /\ \E http \in HttpCodes, t \in StatusObjectsSent :
          /\ http # 200 => t = NoAnswer
          /\ frames' = [th \in Threads |->
                           IF frames[th].pc = "poll"
                           THEN LoopTurn(frames[th], http, t)
                           ELSE frames[th]]
    /\ UNCHANGED <<api_key, environ, headers, calls, op, args, interval, pc, task_id,
                   task, hist, ticks_left, slept, submits, fetched, exc, result,
                   opts, made, written>>

\* The service answers the status request after the loop.
DebugFinalPoll ==
    /\ SomeAt("final")
    /\ \E http \in HttpCodes, t \in StatusObjectsSent :
          /\ http # 200 => t = NoAnswer
          /\ frames' = [th \in Threads |->
                           IF frames[th].pc = "final"
                           THEN FinalTurn(frames[th], http, t)
                           ELSE frames[th]]
    /\ UNCHANGED <<api_key, environ, headers, calls, op, args, interval, pc, task_id,
                   task, hist, ticks_left, slept, submits, fetched, exc, result,
                   opts, made, written>>

\* The service answers a GET of the result fetcher.
DebugFetch ==
    /\ SomeAt("fetch") \/ SomeAt("fetch_text")
    /\ \E http \in HttpCodes, payload \in Payloads :
          /\ http # 200 => payload = "p1"
          /\ frames' = [th \in Threads |->
                           IF frames[th].pc \in {"fetch", "fetch_text"}
                           THEN FetchTurn(frames[th], http, payload)
                           ELSE frames[th]]
    /\ UNCHANGED <<api_key, environ, headers, calls, op, args, interval, pc, task_id,
                   task, hist, ticks_left, slept, submits, fetched, exc, result,
                   opts, made, written>>

NextDebug ==
    \/ DebugCall
    \/ DebugSubmit
    \/ DebugPoll
    \/ DebugFinalPoll
    \/ DebugFetch

\* One orchestration run twice on the same answers, with and without debug.
SpecDebug == Init /\ [][NextDebug]_vars

\* ================================================================= claims

\* The statuses the status requests of this call were answered with.
StatusScript == [i \in 1..Len(hist) |-> hist[i].status]
\* Every status request of this call was answered with HTTP 200.
AllPolls200 == \A i \in 1..Len(hist) : hist[i].http = 200
AllFetches200 == \A j \in 1..Len(fetched) : fetched[j].http = 200

\* C1: in dub, tts, transcribe, translate and translate_tts, once a status
\* request has been answered SUCCESS with a null run_id, no result is ever
\* fetched and the call, when it ends, ends in APIError, whatever the service
\* answers afterwards (status requests all answered with HTTP 200).
C1_SuccessWithoutRunIdIsFatal ==
    (/\ op \in CambOrchestrations
     /\ AllPolls200
     /\ \E i \in 1..Len(hist) : hist[i].status = "SUCCESS" /\ hist[i].run_id = NoRun)
    => /\ fetched = <<>>
       /\ pc = "done" => exc.type = "APIError"

\* C2: in the five orchestrations, a status request answered (HTTP 200) with a
\* status other than SUCCESS and PENDING is the last request of the call: the
\* call has ended in APIError and nothing was fetched.
C2_FailureStatusEndsTheCall ==
    (/\ op \in CambOrchestrations
     /\ AllPolls200)
    => \A i \in 1..Len(hist) :
          hist[i].status \notin {"SUCCESS", "PENDING"}
          => /\ i = Len(hist)
             /\ pc = "done"
             /\ exc.type = "APIError"
             /\ fetched = <<>>

\* C3: in the five orchestrations, while the latest status request was
\* answered PENDING the poller is still polling (about to poll or sleeping
\* before the next poll), has fetched nothing, and every status request so far
\* carried the task_id of the submission.
C3_PendingKeepsPolling ==
    (/\ op \in CambOrchestrations
     /\ hist # <<>>
     /\ Len(hist) < MaxHist
     /\ hist[Len(hist)].http = 200
     /\ hist[Len(hist)].status = "PENDING")
    => /\ pc \in {"poll", "sleep"}
       /\ fetched = <<>>
       /\ \A i \in 1..Len(hist) : hist[i].key = task_id

\* The status requests of this call were answered PENDING zero or more
\* times, then SUCCESS with run_id r, and SUCCESS with r again when the code
\* asked once more after the loop; all with HTTP 200.
PendingThenSuccess(r) ==
    /\ Len(hist) >= 2
    /\ AllPolls200
    /\ \A i \in 1..(Len(hist) - 2) : hist[i].status = "PENDING"
    /\ \A i \in {Len(hist) - 1, Len(hist)} :
          hist[i].status = "SUCCESS" /\ hist[i].run_id = r

\* The endpoint whose payload an orchestration returns.
ResultEndpoint(o) ==
    CASE o = "dub" -> "dubbed_run_info"
      [] o = "transcribe" -> "transcription_result"
      [] o \in {"translate", "translate_tts"} -> "translation_result"

\* C4: when the status requests are answered PENDING k >= 0 times and then
\* SUCCESS with a non-null run_id r, and every response is HTTP 200, a finished
\* dub, transcribe, translate or translate_tts has raised nothing and returned
\* the payload its result fetcher got from the result endpoint for r; every
\* result request was keyed by r.
C4_ReturnsFetchedPayload ==
    \A r \in RunIds :
        (/\ op \in {"dub", "transcribe", "translate", "translate_tts"}
         /\ pc = "done"
         /\ PendingThenSuccess(r)
         /\ AllFetches200)
        => /\ exc = NoExc
           /\ fetched # <<>>
           /\ \A j \in 1..Len(fetched) : fetched[j].run_id = r
           /\ fetched[Len(fetched)].ep = ResultEndpoint(op)
           /\ result = fetched[Len(fetched)].payload

\* C4 witness: translate_tts returned p2 after one PENDING answer.
C4_Witness ==
    /\ op = "translate_tts"
    /\ pc = "done"
    /\ PendingThenSuccess("r2")
    /\ Len(hist) = 3
    /\ AllFetches200
    /\ result = "p2"

\* The status requests were answered PENDING, PENDING, ERROR (HTTP 200).
PendingPendingError ==
    /\ Len(hist) >= 3
    /\ AllPolls200
    /\ hist[1].status = "PENDING"
    /\ hist[2].status = "PENDING"
    /\ hist[3].status = "ERROR"

LanguageFields == {"language", "source_language", "target_language"}
\* Some language id among the parameters a lies outside [1, 148].
LanguageOutside(a) ==
    \E f \in DOMAIN a \cap LanguageFields : a[f] < 1 \/ a[f] > 148

\* The parameters a pass every check the claims C8-C10 do not speak of in
\* the case at hand: language ids in [1, 148], formality None, 1 or 2, gender
\* None or a member of Gender (a member for create_custom_voice), and a file
\* that is a .wav and exists.
WellFormed(s, a) ==
    /\ ~LanguageOutside(a)
    /\ "formality" \in DOMAIN a => a.formality \in {{}, {1}, {2}}
    /\ "gender" \in DOMAIN a =>
          \/ a.gender \in Gender
          \/ a.gender = "None" /\ s # "create_custom_voice"
    /\ "file" \in DOMAIN a => a.file = "voice.wav"

\* C8: a call of start_dubbing/dub, create_tts/tts, create_transcription/
\* transcribe, create_translation/translate or create_translated_tts/
\* translate_tts with a language id outside [1, 148] has ended in a
\* validation error (ValueError or TypeError) and has posted nothing.
C8_LanguageOutsideRejectedLocally ==
    (/\ op \in CambOrchestrations \cup (Submitters \ {"create_custom_voice", "pip_start_dubbing"})
     /\ pc = "done"
     /\ args # NoArgs
     /\ LanguageOutside(args))
    => /\ exc.type \in {"ValueError", "TypeError"}
       /\ submits = <<>>

\* The parameters a step of the submitter can have run with: the ones the
\* call kept when it kept them, any of them when it did not.
ParamsOfStep ==
    IF args' # NoArgs THEN {args'} ELSE ArgsOf(SubmitterOf(op))

\* C9: in create_translation/translate and create_translated_tts/
\* translate_tts, run with any parameters a: a formality that is given and is
\* not 1 or 2 ends the call in ValueError with nothing posted; a formality of
\* None never raises the formality error, and with the other parameters
\* valid the request is posted.
C9_FormalityChecked ==
    [][(/\ pc = "submit"
        /\ op \in {"create_translation", "translate",
                   "create_translated_tts", "translate_tts"})
       => \A a \in ParamsOfStep, http \in HttpCodes, tid \in TaskIds :
             SubmitWith(a, http, tid)
             => /\ (a.formality # {} /\ a.formality \notin {{1}, {2}})
                   => /\ pc' = "done"
                      /\ exc'.type = "ValueError"
                      /\ submits' = <<>>
                /\ a.formality = {}
                   => /\ exc' # Raise("ValueError",
                                      <<SubmitterOf(op), "formality must be one of {1, 2}">>)
                      /\ WellFormed(SubmitterOf(op), a) => Len(submits') = 1
      ]_vars

\* C9 witness: translate was rejected for formality 3, all else valid.
C9_Witness ==
    /\ op = "translate"
    /\ pc = "done"
    /\ args # NoArgs
    /\ args.formality = {3}
    /\ ~LanguageOutside(args)
    /\ args.gender = "Gender.FEMALE"
    /\ exc = Raise("ValueError", <<"create_translation", "formality must be one of {1, 2}">>)
    /\ submits = <<>>

\* C10: in create_custom_voice, create_tts, create_translation and
\* create_translated_tts (and the orchestrations that call them), run with any
\* parameters a: a gender that is given and is not a member of Gender ends the
\* call in TypeError or ValueError with nothing posted (for create_custom_voice
\* a gender of None too); a gender that is one of the four members never
\* raises TypeError, and with the other parameters valid the request is posted.
C10_GenderChecked ==
    [][(/\ pc = "submit"
        /\ op \in Orchestrations \cup Submitters
        /\ SubmitterOf(op) \in {"create_custom_voice", "create_tts",
                                "create_translation", "create_translated_tts"})
       => \A a \in ParamsOfStep, http \in HttpCodes, tid \in TaskIds :
             SubmitWith(a, http, tid)
             => /\ (/\ a.gender \notin {"Gender.NOT_KNOWN", "Gender.MALE",
                                        "Gender.FEMALE", "Gender.NOT_APPLICABLE"}
                    /\ a.gender # "None" \/ SubmitterOf(op) = "create_custom_voice")
                   => /\ pc' = "done"
                      /\ exc'.type \in {"TypeError", "ValueError"}
                      /\ submits' = <<>>
                /\ a.gender \in {"Gender.NOT_KNOWN", "Gender.MALE",
                                 "Gender.FEMALE", "Gender.NOT_APPLICABLE"}
                   => /\ exc'.type # "TypeError"
                      /\ WellFormed(SubmitterOf(op), a) => Len(submits') = 1
      ]_vars

\* C10 witness: tts was rejected for a gender that is a bare string.
C10_Witness ==
    /\ op = "tts"
    /\ pc = "done"
    /\ args # NoArgs
    /\ args.gender = "str male"
    /\ args.language = 148
    /\ exc.type = "TypeError"
    /\ submits = <<>>

\* ------------------------------------------------------------- termination

\* Every request the code makes is answered and every sleep returns (weak
\* fairness of the steps that wait for them), and the service does not answer
\* PENDING for ever: of the polls made, some is answered otherwise.
Fairness ==
    /\ WF_vars(Submit)
    /\ WF_vars(List)
    /\ WF_vars(GetTaskStatus)
    /\ SF_vars(PollSettled)
    /\ WF_vars(SleepTick)
    /\ WF_vars(SleepInterval)
    /\ WF_vars(FinalPoll)
    /\ WF_vars(Fetch)
    /\ WF_vars(FetchText)

SpecFair == Spec /\ Fairness

\* How polling ended.
\* It handed a run_id to the result fetcher.
Succeeded == pc \in {"fetch", "fetch_text"} \/ fetched # <<>>
\* It raised APIError("Run ID is None").
ProtocolViolation == exc = Raise("APIError", <<"Run ID is None">>)
\* It raised the APIError that names status s.
FailedWith(s) == exc.type = "APIError" /\ Len(exc.msg) = 4 /\ exc.msg[2] = s
\* A status request was refused by HTTP: the call exited with nothing fetched.
PollRefused == exc.type = "SystemExit" /\ task_id # "none" /\ fetched = <<>>
\* Polling began and is over.
PollingOver == task_id # "none" /\ (Succeeded \/ pc = "done")

FiveOutcomes ==
    {<<"succeeded", Succeeded>>,
     <<"protocol violation", ProtocolViolation>>,
     <<"TIMEOUT", FailedWith("TIMEOUT")>>,
     <<"ERROR", FailedWith("ERROR")>>,
     <<"PAYMENT_REQUIRED", FailedWith("PAYMENT_REQUIRED")>>}

\* Once polling is over (its status requests answered with HTTP 200 and with
\* statuses of the enumeration), exactly one of the five outcomes holds, and a
\* failure outcome names the status last reported.
ExactlyOneOfFive ==
    (/\ op \in CambOrchestrations
     /\ PollingOver
     /\ ~PollRefused
     /\ task.status \in Statuses \ {"UNRECOGNISED"})
    => /\ Cardinality({o \in FiveOutcomes : o[2]}) = 1
       /\ \A s \in {"TIMEOUT", "ERROR", "PAYMENT_REQUIRED"} :
             FailedWith(s) => task.status = s

InPolling == pc \in {"poll", "sleep"}

\* math.ceil(polling_interval) seconds, none for an interval of zero or less;
\* the interval is in tenths of a second.
WaitSeconds == IF interval <= 0 THEN 0 ELSE (interval + 9) \div 10

\* What C7 says of the loop in any state of an orchestration: a due poll is
\* issued and may be answered PENDING once more; the wait before a poll, and
\* the wait under way, is ceil(interval) seconds.
NoCapSameWait ==
    op \in CambOrchestrations
    => /\ pc = "poll" => ENABLED PollPending
       /\ (pc = "poll" /\ task.status = "PENDING") => slept = 10 * WaitSeconds
       /\ pc = "sleep" => /\ task.status = "PENDING"
                          /\ slept + 10 * ticks_left = 10 * WaitSeconds

\* What C7 says of its steps: a PENDING answer keeps it in POLLING, and it
\* leaves POLLING only at a poll not answered PENDING or refused by HTTP.
PendingStaysOthersLeave ==
    op \in CambOrchestrations
    => /\ \A t \in StatusObjects :
             (t.status = "PENDING" /\ LoopPoll(200, t))
             => /\ InPolling'
                /\ ticks_left' = WaitSeconds
                /\ task_id' = task_id
                /\ interval' = interval
                /\ exc' = NoExc
                /\ fetched' = <<>>
       /\ (InPolling /\ ~InPolling')
          => /\ pc = "poll"
             /\ \/ \E http \in HttpCodes \ {200} : exc' = HttpFailure(op, http)
                \/ task'.status # "PENDING"

\* C7: in the five orchestrations the loop has no cap, backoff or deadline.
\* Whenever it is about to poll, the poll is issued and may be answered
\* PENDING once more; after a PENDING answer, however many came before, it is
\* still in POLLING with the same task_id and interval and has raised and
\* fetched nothing; before every further poll it has waited the same
\* ceil(interval) seconds; and it leaves POLLING only at a poll, on an answer
\* that is not PENDING or on an HTTP failure.
C7_NoCapNoBackoff ==
    /\ []NoCapSameWait
    /\ [][PendingStaysOthersLeave]_vars

\* C7 witness: tts is about to poll a fourth time or later, every recorded
\* answer PENDING, after the full two seconds of a 1.5 s interval.
C7_Witness ==
    /\ op = "tts"
    /\ pc = "poll"
    /\ interval = 15
    /\ Len(hist) = MaxHist
    /\ \A i \in 1..Len(hist) : hist[i].http = 200 /\ hist[i].status = "PENDING"
    /\ slept = 20

\* ------------------------------------------------- claims on failed requests

\* The file is of the container the upload expects: a WAV for a custom
\* voice, an audio file for a transcription.
ExpectedContainer(s, file) ==
    IF s = "create_custom_voice"
    THEN file \in {"voice.wav", "missing.wav"}
    ELSE file \in {"voice.wav", "missing.wav", "voice.mp3", "missing.mp3"}

\* C11: a call of create_custom_voice or create_transcription (transcribe
\* too) whose file does not exist, or is not of the expected container, the
\* other parameters being valid, has ended in an error and has posted nothing.
C11_BadFileRejectedLocally ==
    (/\ op \in {"create_custom_voice", "create_transcription", "transcribe"}
     /\ pc = "done"
     /\ args # NoArgs
     /\ ~LanguageOutside(args)
     /\ "gender" \in DOMAIN args => args.gender \in Gender
     /\ \/ args.file \notin ExistingFiles
        \/ ~ExpectedContainer(SubmitterOf(op), args.file))
    => /\ exc # NoExc
       /\ submits = <<>>

\* The call ended in what a refused request raises, and returned nothing.
EndedRefused ==
    /\ pc = "done"
    /\ exc.type \in {"SystemExit", "HTTPError"}
    /\ result = NoResult

RefusedWith ==
    {h \in HttpCodes \ {200} :
        \/ submits # <<>> /\ submits[Len(submits)].http = h
        \/ hist # <<>> /\ hist[Len(hist)].http = h
        \/ fetched # <<>> /\ fetched[Len(fetched)].http = h}

\* C14: a call that a request answered with a status other than 200 has
\* ended, ended in an error that carries that status code.
C14_ErrorCarriesStatusCode ==
    \A h \in RefusedWith :
        pc = "done"
        => /\ exc # NoExc
           /\ \E i \in 1..Len(exc.msg) : exc.msg[i] = h

TaskFailed ==
    /\ op \in Orchestrations
    /\ pc = "done"
    /\ exc.type = "APIError"
    /\ ~ProtocolViolation

\* The values the error carries.
Carried == {exc.msg[i] : i \in 1..Len(exc.msg)}

\* C16 as stated: the error of a failed task carries the status of the
\* failing poll, the task_id and the run_id.
C16_ErrorNamesStatusTaskAndRun ==
    TaskFailed
    => /\ task.status \in Carried
       /\ task.run_id \in Carried
       /\ task_id \in Carried

\* C16 as amended: the error of a failed task is the prefix of the method, the
\* status of the failing poll (neither SUCCESS nor PENDING) and the run_id of
\* that same answer, the last one recorded; it does not carry the task_id.
C16_ErrorNamesStatusAndRun ==
    TaskFailed
    => /\ exc = Raise("APIError",
                      <<IssuePrefix(op), task.status, " for Run ID: ", task.run_id>>)
       /\ task.status \notin {"SUCCESS", "PENDING"}
       /\ task_id \notin Carried
       /\ Len(hist) < MaxHist
          => /\ hist[Len(hist)].status = task.status
             /\ hist[Len(hist)].run_id = task.run_id

\* C16 witness: translate_tts failed on TIMEOUT reported with run_id r1.
C16_Witness ==
    /\ op = "translate_tts"
    /\ TaskFailed
    /\ Len(hist) = 2
    /\ hist[2].status = "TIMEOUT"
    /\ hist[2].run_id = "r1"
    /\ "TIMEOUT" \in Carried
    /\ "r1" \in Carried

\* ------------------------------------------- claims on the key and the ids

\* C17: a client constructed with no api_key and no CAMB_API_KEY does not
\* exist: APIKeyMissingError, no session, and no call or request ever; with
\* either of them the client has a session that carries the key, the
\* api_key argument when both are given.
C17_KeyRequiredAtConstruction ==
    /\ (api_key = NoKey /\ environ = NoKey)
       => /\ exc.type = "APIKeyMissingError"
          /\ headers = NoSession
          /\ calls = 0
          /\ submits = <<>> /\ hist = <<>> /\ fetched = <<>>
    /\ (api_key # NoKey \/ environ # NoKey)
       => /\ exc.type # "APIKeyMissingError"
          /\ headers # NoSession
          /\ api_key # NoKey => headers["x-api-key"] = api_key
          /\ api_key = NoKey => headers["x-api-key"] = environ

\* C17 witness: the constructor found no key.
C17_Witness ==
    /\ api_key = NoKey
    /\ environ = NoKey
    /\ pc = "no client"
    /\ exc.type = "APIKeyMissingError"

\* The key fixed at construction.
KeyAtConstruction == IF api_key # NoKey THEN api_key ELSE environ

\* C18: whatever calls were made on a client and however they ended, its
\* session headers hold x-api-key with the key fixed at construction, and
\* every submission was posted with that header.
C18_ApiKeyHeaderKept ==
    headers # NoSession
    => /\ "x-api-key" \in DOMAIN headers
       /\ headers["x-api-key"] = KeyAtConstruction
       /\ \A i \in 1..Len(submits) : "x-api-key" \in submits[i].headers

\* C18 witness: a second call, one that ended in an error, on a client
\* keyed by the environment whose first call set Content-Type.
C18_Witness ==
    /\ api_key = NoKey
    /\ calls = 2
    /\ op = "create_transcription"
    /\ pc = "done"
    /\ exc.type = "SystemExit"
    /\ submits # <<>>
    /\ "Content-Type" \in DOMAIN headers
    /\ headers["x-api-key"] = "key-2"

\* C19 as stated: an orchestration of the five that returned made exactly one
\* result fetch, for its run_id; one that ended in an error made none, unless
\* the error is that of a refused fetch or that of opening the audio file.
C19_ExactlyOneFetch ==
    (op \in CambOrchestrations /\ pc = "done")
    => /\ exc = NoExc
          => Len(fetched) = 1 /\ fetched[1].run_id = task.run_id
       /\ exc # NoExc
          => \/ fetched = <<>>
             \/ fetched[Len(fetched)].http # 200
             \/ exc.type = "FileNotFoundError" /\ fetched[1].ep = "tts_result"

\* C19 as amended: an orchestration of the five that returned made exactly
\* one GET of its kind's result endpoint for its run_id, and translate_tts a
\* second one, of translation_result for the same run_id; one that ended in an
\* error made none, unless the error is that of a refused fetch or that of
\* opening the audio file after a fetch answered 200.
C19_OneFetchTwoForTranslatedTts ==
    (op \in CambOrchestrations /\ pc = "done")
    => /\ exc = NoExc
          => /\ Len(fetched) = IF op = "translate_tts" THEN 2 ELSE 1
             /\ \A j \in 1..Len(fetched) :
                   fetched[j].run_id = task.run_id /\ fetched[j].http = 200
             /\ fetched[1].ep =
                   CASE op = "dub" -> "dubbed_run_info"
                     [] op \in {"tts", "translate_tts"} -> "tts_result"
                     [] op = "transcribe" -> "transcription_result"
                     [] op = "translate" -> "translation_result"
             /\ op = "translate_tts" => fetched[2].ep = "translation_result"
       /\ exc # NoExc
          => \/ fetched = <<>>
             \/ fetched[Len(fetched)].http # 200
             \/ /\ exc.type = "FileNotFoundError"
                /\ Len(fetched) = 1
                /\ fetched[1].ep = "tts_result"

\* C19 witness: translate_tts returned after its two fetches.
C19_Witness ==
    /\ op = "translate_tts"
    /\ pc = "done"
    /\ exc = NoExc
    /\ Len(fetched) = 2
    /\ fetched[1].run_id = "r1"
    /\ fetched[2].run_id = "r1"

\* C20: in every orchestration, each result fetch is keyed by the run_id of
\* the last status answer for the task, a run_id and not the task_id, and
\* each status request is keyed by the task_id of the submission, never by a
\* run_id.
C20_KeysNeverSwapped ==
    op \in Orchestrations
    => /\ \A j \in 1..Len(fetched) :
             /\ fetched[j].run_id = task.run_id
             /\ fetched[j].run_id \in RunIds
             /\ fetched[j].run_id # task_id
       /\ \A i \in 1..Len(hist) :
             /\ hist[i].key = task_id
             /\ hist[i].key \in TaskIds
             /\ hist[i].key \notin RunIds

\* C20 witness: tts fetched by r2 after polling t1 three times.
C20_Witness ==
    /\ op = "tts"
    /\ task_id = "t1"
    /\ Len(hist) = 3
    /\ fetched # <<>>
    /\ fetched[1].run_id = "r2"

\* ------------------------------------------------- claims on written files

\* The bytes of a stream, chunk after chunk in the order of arrival.
RECURSIVE Bytes(_)
Bytes(stream) ==
    IF stream = <<>>
    THEN <<>>
    ELSE Bytes(SubSeq(stream, 1, Len(stream) - 1)) \o stream[Len(stream)]

\* The sum of the lengths of the chunks of a stream.
RECURSIVE TotalLength(_)
TotalLength(stream) ==
    IF stream = <<>> THEN 0 ELSE Len(Head(stream)) + TotalLength(Tail(stream))

\* The audio files this call wrote.
AudioFiles == {path \in DOMAIN written : Len(path) = 4 /\ path[2] = "tts_stream_"}

\* The audio GET of this call was answered 200.
AudioReceived ==
    /\ op \in {"tts", "translate_tts"}
    /\ fetched # <<>>
    /\ fetched[1].ep = "tts_result"
    /\ fetched[1].http = 200

\* C21: whatever chunks the audio endpoint streamed, the file get_tts_result
\* wrote holds their bytes in the order of arrival, and as many bytes as the
\* chunks have together; the file is there unless opening it failed.
C21_FileHoldsTheStream ==
    AudioReceived
    => /\ \A path \in AudioFiles :
             /\ written[path] = Bytes(fetched[1].payload)
             /\ Len(written[path]) = TotalLength(fetched[1].payload)
       /\ exc.type # "FileNotFoundError" => Cardinality(AudioFiles) = 1

\* C21 witness: tts wrote the three bytes of two chunks, the longer first.
C21_Witness ==
    /\ op = "tts"
    /\ pc = "done"
    /\ AudioReceived
    /\ fetched[1].payload = <<(<<2, 3>>), (<<1>>)>>
    /\ \E path \in AudioFiles : written[path] = <<2, 3, 1>>

\* C23: get_tts_result run with output_directory None (in tts, and in
\* translate_tts) writes the audio file under audio_tts.
C23_NoneMeansDefaultDirectory ==
    (/\ AudioReceived
     /\ opts # NoOpts
     /\ opts.output_directory = NoneVal)
    => /\ exc.type # "FileNotFoundError"
       /\ AudioFiles = {<<"audio_tts", "tts_stream_", task.run_id, ".wav">>}

\* C24: a translate_tts that returned wrote the audio file under
\* output_directory when save_to_file was True, and no audio file when it was
\* False.
C24_AudioSavedOnlyOnRequest ==
    (/\ op = "translate_tts"
     /\ pc = "done"
     /\ exc = NoExc)
    => /\ opts.save_to_file
          => AudioFiles = {AudioPath(opts.output_directory, task.run_id)}
       /\ ~opts.save_to_file => AudioFiles = {}

\* C25: create_custom_voice and create_transcription (transcribe too), given
\* a file that does not exist and parameters that pass their checks, end in
\* FileNotFoundError and post nothing.
C25_MissingFileRaisesFileNotFound ==
    (/\ op \in {"create_custom_voice", "create_transcription", "transcribe"}
     /\ pc = "done"
     /\ args # NoArgs
     /\ LocalChecks(SubmitterOf(op), args) = NoExc
     /\ args.file \notin ExistingFiles)
    => /\ exc.type = "FileNotFoundError"
       /\ submits = <<>>

\* ------------------------------------------------ listings and the headers

\* C27: get_languages(t), t being source or target, issues exactly one GET,
\* to source_languages or target_languages respectively, and on a 200 returns
\* the list of the response as it came, whether or not write_to_file asked
\* for a copy in a file.
C27_LanguagesReturnedAsSent ==
    (op \in {"get_languages", "pip_get_languages"} /\ pc = "done")
    => /\ Len(fetched) = 1
       /\ hist = <<>>
       /\ submits = <<>>
       /\ opts.language_type = "source" => fetched[1].ep = "source_languages"
       /\ opts.language_type = "target" => fetched[1].ep = "target_languages"
       /\ fetched[1].http = 200
          => /\ exc = NoExc
             /\ result = fetched[1].payload

\* C27 witness: the target languages, returned and also written to a file.
C27_Witness ==
    /\ op = "get_languages"
    /\ pc = "done"
    /\ opts = [language_type |-> "target", write_to_file |-> TRUE]
    /\ fetched[1].ep = "target_languages"
    /\ result = "p2"
    /\ <<"target", "_languages.json">> \in DOMAIN written

\* The submission a step has just posted, if it posted one.
Posted == Len(submits') = Len(submits) + 1

\* What one step may do to Content-Type.
JsonHeaderStays ==
    /\ "Content-Type" \in DOMAIN headers
       => /\ "Content-Type" \in DOMAIN headers'
          /\ headers'["Content-Type"] = "application/json"
    /\ Posted
       => LET sent == submits'[Len(submits')]
          IN IF sent.ep \in {"end_to_end_dubbing", "tts", "create_translation",
                             "create_translated_tts"}
             THEN /\ "Content-Type" \in sent.headers
                  /\ "Content-Type" \in DOMAIN headers'
                  /\ headers'["Content-Type"] = "application/json"
             ELSE /\ "Content-Type" \in sent.headers
                     <=> "Content-Type" \in DOMAIN headers
                  /\ headers' = headers

\* C28: once start_dubbing, create_tts, create_translation or
\* create_translated_tts has posted on a client, Content-Type:
\* application/json is in the session headers and no later step removes or
\* changes it; a multipart upload (create_custom_voice, create_transcription)
\* leaves the headers alone, so it is sent with Content-Type exactly when a
\* JSON submission was posted before it.
C28_JsonHeaderStays == [][JsonHeaderStays]_vars

\* C28 witness: the second call of a client is a multipart upload, and it was
\* sent with the Content-Type a JSON submission of the first call had left.
C28_Witness ==
    /\ calls = 2
    /\ op \in {"create_transcription", "create_custom_voice"}
    /\ submits # <<>>
    /\ "Content-Type" \in submits[1].headers

\* --------------------------------------------------- order of the requests

\* What one step of an orchestration may request, given what was requested
\* before it.
SubmitPollsFetch ==
    op \in Orchestrations
    => /\ Posted => submits = <<>> /\ hist = <<>> /\ fetched = <<>>
       /\ pc \in {"poll", "final"}
          => /\ Len(submits) = 1
             /\ submits[1].http = 200
             /\ submits[1].task_id \in TaskIds
             /\ task_id = submits[1].task_id
             /\ fetched = <<>>
             /\ fetched' = <<>>
             /\ submits' = submits
             /\ hist' # hist
                => hist'[Len(hist')].key = submits[1].task_id
       /\ Len(fetched') > Len(fetched)
          => /\ pc \in {"fetch", "fetch_text"}
             /\ Len(submits) = 1
             /\ hist # <<>>
             /\ hist' = hist
             /\ submits' = submits
       /\ (fetched # <<>> /\ calls' = calls)
          => /\ hist' = hist
             /\ submits' = submits
             /\ pc' \notin {"submit", "poll", "sleep", "final"}

\* C22: in every run of an orchestration the requests come in the order
\* submit, polls, fetch: the one submission is the first request, every status
\* request follows it and asks for the task_id it returned, and every result
\* fetch follows the last status request.
C22_SubmitThenPollsThenFetch ==
    /\ [][SubmitPollsFetch]_vars
    /\ [](op \in Orchestrations
          => /\ Len(submits) <= 1
             /\ \A i \in 1..Len(hist) : /\ submits # <<>>
                                        /\ hist[i].key = submits[1].task_id)

\* C22 witness: transcribe submitted once and was given t2, asked three
\* times for t2, and then fetched.
C22_Witness ==
    /\ op = "transcribe"
    /\ pc = "done"
    /\ Len(submits) = 1
    /\ submits[1].task_id = "t2"
    /\ Len(hist) = 3
    /\ \A i \in 1..3 : hist[i].key = "t2"
    /\ Len(fetched) = 1
    /\ fetched[1].http = 200

\* --------------------------------------------------------- the status query

\* C26: get_task_status given a task kind that is none of dubbing, tts,
\* transcription, translation and translated_tts raises ValueError and makes
\* no request; given one of the five it makes exactly one GET, to the status
\* endpoint of that kind, for the task_id it was given.
C26_KindChoosesEndpoint ==
    (op = "get_task_status" /\ pc = "done")
    => /\ submits = <<>>
       /\ fetched = <<>>
       /\ IF opts.task \notin {"dubbing", "tts", "transcription", "translation",
                               "translated_tts"}
          THEN /\ exc.type = "ValueError"
               /\ hist = <<>>
          ELSE /\ exc.type # "ValueError"
               /\ Len(hist) = 1
               /\ hist[1].key = opts.task_id
               /\ opts.task = "dubbing" => hist[1].ep = "end_to_end_dubbing"
               /\ opts.task = "tts" => hist[1].ep = "tts"
               /\ opts.task = "transcription" => hist[1].ep = "create_transcription"
               /\ opts.task = "translation" => hist[1].ep = "create_translation"
               /\ opts.task = "translated_tts"
                  => hist[1].ep = "create_translated_tts"

\* C26 witness: a kind that is none of the five was refused with ValueError
\* and nothing was requested.
C26_Witness ==
    /\ op = "get_task_status"
    /\ pc = "done"
    /\ opts = [task |-> "voice", task_id |-> "t2"]
    /\ exc.type = "ValueError"
    /\ hist = <<>>

\* ------------------------------------------------------- one machine, five

\* The class of the outcome a call ends in.
OutcomeClass(e, r) ==
    CASE e = NoExc /\ r # NoResult -> "returned"
      [] e = NoExc /\ r = NoResult -> "none"
      [] e.type = "SystemExit" -> "remote rejection"
      [] e = Raise("APIError", <<"Run ID is None">>) -> "protocol violation"
      [] e.type = "APIError" /\ e # Raise("APIError", <<"Run ID is None">>)
            -> "task failure"
      [] OTHER -> "other"

\* The step ends the call in the outcome class c.
EndsIn(c) == pc' = "done" /\ OutcomeClass(exc', result') = c

\* The step goes on to the control point p, nothing raised or returned.
GoesOn(p) == pc' = p /\ exc' = NoExc /\ result' = NoResult

\* The steps of the machine up to the result fetch, with no operation named:
\* what follows the answer to the submission, to a status request in the loop
\* and to the one after it, and the seconds slept between two of them.
SubmitPollSleepSteps ==
    /\ (pc = "submit" /\ Posted)
       => IF submits'[1].http # 200
          THEN EndsIn("remote rejection") /\ hist' = <<>> /\ fetched' = <<>>
          ELSE GoesOn("poll")
    /\ pc = "poll"
       => \/ EndsIn("remote rejection") /\ task' = task
          \/ task'.status = "SUCCESS" /\ GoesOn("final")
          \/ /\ task'.status = "PENDING"
             /\ GoesOn(IF interval > 0 THEN "sleep" ELSE "poll")
             /\ ticks_left' = (IF interval > 0 THEN (interval + 9) \div 10 ELSE 0)
          \/ /\ task'.status \in Statuses \ {"SUCCESS", "PENDING"}
             /\ EndsIn("task failure")
    /\ pc = "sleep"
       => /\ GoesOn(IF ticks_left = 1 THEN "poll" ELSE "sleep")
          /\ slept' = slept + 10
          /\ ticks_left' = ticks_left - 1
          /\ UNCHANGED <<submits, hist, fetched>>
    /\ pc = "final"
       => \/ EndsIn("remote rejection") /\ task' = task
          \/ task'.run_id = NoRun /\ EndsIn("protocol violation")
          \/ task'.run_id \in RunIds /\ GoesOn("fetch")
    /\ pc \in {"poll", "sleep", "final"} => fetched' = <<>> /\ submits' = submits

\* The fetch of the machine: one GET, and its answer ends the call.
OneFetchStep ==
    /\ pc # "fetch_text"
    /\ pc = "fetch"
       => /\ Len(fetched') = 1
          /\ IF fetched'[1].http # 200
             THEN EndsIn("remote rejection")
             ELSE EndsIn("returned")

\* The fetch as the five run it: translate_tts makes a second GET after a
\* 200 to the first, and the two that write the audio to a file can end in
\* the error of open() after a 200.
FetchSteps ==
    /\ pc = "fetch"
       => /\ Len(fetched') = 1
          /\ IF fetched'[1].http # 200
             THEN EndsIn("remote rejection")
             ELSE \/ op # "translate_tts" /\ EndsIn("returned")
                  \/ op = "translate_tts" /\ GoesOn("fetch_text")
                  \/ /\ op \in {"tts", "translate_tts"}
                     /\ opts'.output_directory = NoneVal
                     /\ pc' = "done"
                     /\ exc'.type = "FileNotFoundError"
                     /\ result' = NoResult
    /\ pc = "fetch_text"
       => /\ op = "translate_tts"
          /\ Len(fetched') = 2
          /\ IF fetched'[2].http # 200
             THEN EndsIn("remote rejection")
             ELSE EndsIn("returned")

\* Each of the five takes the steps of the machine, its one fetch included.
OneMachineSteps ==
    op \in CambOrchestrations => (SubmitPollSleepSteps /\ OneFetchStep)

\* Each of the five takes the steps of the machine and fetches in its way.
OneMachineUpToTheFetchSteps ==
    op \in CambOrchestrations => (SubmitPollSleepSteps /\ FetchSteps)

AloneEndsIn(f) ==
    CASE f.last.http # 200 -> "remote rejection"
      [] f.last.http = 200 /\ f.last.req = "poll" -> "task failure"
      [] f.last.http = 200 /\ f.last.req = "final" -> "protocol violation"
      [] f.last.http = 200 /\ f.last.req \in {"fetch", "fetch_text"} ->
            IF f.op \in {"tts", "translate_tts"} /\ f.output_directory = NoneVal
            THEN "other"
            ELSE "none"

\* C29: of two orchestration calls interleaved on one client, each asks only
\* for the status of the task its own submission was given, fetches only the
\* run reported for that task, and ends as it would end alone on the same
\* answers.
C29_InterleavedCallsIndependent ==
    \A th \in Threads :
        LET f == frames[th]
        IN /\ f.asked \subseteq {f.task_id}
           /\ f.task_id # "none" => f.task_id # frames[Other(th)].task_id
           /\ f.got \subseteq {RunOf(f.task_id)}
           /\ f.pc = "done" => OutcomeClass(f.exc, "no value") = AloneEndsIn(f)

\* ------------------------------------------------ the run_id and the polls

\* C31: the run_id an orchestration fetches with is the one of a status
\* answer whose status was SUCCESS, whatever the service answers to each
\* status request.
C31_RunIdFromSuccess ==
    (op \in Orchestrations /\ fetched # <<>>)
    => /\ task.status = "SUCCESS"
       /\ \A j \in 1..Len(fetched) : fetched[j].run_id = task.run_id

\* The status requests so far were answered n times PENDING and then SUCCESS,
\* all with HTTP 200, and hist has room for the request after the loop.
PendingsThenSuccess(n) ==
    /\ n + 2 <= MaxHist
    /\ Len(hist) >= n + 1
    /\ AllPolls200
    /\ \A i \in 1..n : hist[i].status = "PENDING"
    /\ hist[n + 1].status = "SUCCESS"

\* C32: when the status requests are answered n >= 0 times PENDING and then
\* SUCCESS, all with HTTP 200, an orchestration makes n + 1 status requests
\* in its loop and exactly one more after it; the check for a null run_id and
\* the run_id of every fetch read the answer to that last request only.
C32_OneMoreRequestAfterTheLoop ==
    \A n \in 0..(MaxHist - 2) :
        (op \in Orchestrations /\ PendingsThenSuccess(n))
        => /\ pc \in {"final", "fetch", "fetch_text", "done"}
           /\ pc = "final" <=> Len(hist) = n + 1
           /\ pc # "final"
              => /\ Len(hist) = n + 2
                 /\ task.status = hist[n + 2].status
                 /\ task.run_id = hist[n + 2].run_id
                 /\ hist[n + 2].run_id = NoRun
                    => /\ exc = Raise("APIError", <<"Run ID is None">>)
                       /\ fetched = <<>>
                 /\ hist[n + 2].run_id # NoRun
                    => /\ exc # Raise("APIError", <<"Run ID is None">>)
                       /\ pc = "fetch" \/ fetched # <<>>
                       /\ \A j \in 1..Len(fetched) :
                             fetched[j].run_id = hist[n + 2].run_id

\* C32 witness: translate was answered PENDING, SUCCESS with r1, and after
\* the loop SUCCESS with r2; it fetched with r2.
C32_Witness ==
    /\ op = "translate"
    /\ pc = "done"
    /\ PendingsThenSuccess(1)
    /\ hist[2].run_id = "r1"
    /\ hist[3].run_id = "r2"
    /\ Len(fetched) = 1
    /\ fetched[1].run_id = "r2"

\* The one-second sleeps between two status requests of the loop.
TicksBetweenPolls == IF interval <= 0 THEN 0 ELSE (interval + 9) \div 10

\* C33: the orchestrations of cambai sleep ceil(polling_interval) times one
\* second between two status requests of the loop, not at all when
\* polling_interval <= 0; they do not sleep before the first status request,
\* after a SUCCESS or after a failure status.
C33_CeilTicksBetweenPolls ==
    op \in CambOrchestrations
    => /\ pc = "poll"
          => IF task = NoTask
             THEN slept = 0
             ELSE task.status = "PENDING" /\ slept = 10 * TicksBetweenPolls
       /\ pc = "sleep"
          => /\ task.status = "PENDING"
             /\ ticks_left > 0
             /\ slept + 10 * ticks_left = 10 * TicksBetweenPolls
       /\ pc \in {"submit", "final", "fetch", "fetch_text", "done"} => slept = 0

\* C33 witness: translate, called with an interval of 1.5 s, has slept two
\* seconds after a PENDING answer and is about to ask again.
C33_Witness ==
    /\ op = "translate"
    /\ pc = "poll"
    /\ interval = 15
    /\ task.status = "PENDING"
    /\ slept = 20
    /\ hist # <<>>

\* ------------------------------------------------------- a rejected call

\* What a step that rejects the parameters, and a step that begins the next
\* call, do to the client.
RejectedLeavesNoTrace ==
    /\ (/\ pc = "submit"
        /\ op \in Orchestrations \cup Submitters
        /\ pc' = "done"
        /\ exc'.type \in {"ValueError", "TypeError"})
       => /\ headers' = headers
          /\ api_key' = api_key
          /\ submits' = <<>>
          /\ made' = made
          /\ written' = written
    /\ calls' = calls + 1
       => /\ headers' = headers
          /\ api_key' = api_key
          /\ pc' = "submit"
          /\ args' = NoArgs
          /\ task_id' = "none"
          /\ task' = NoTask
          /\ hist' = <<>>
          /\ submits' = <<>>
          /\ fetched' = <<>>
          /\ exc' = NoExc
          /\ result' = NoResult

\* C34: a submitter (alone or inside its orchestration) that rejects its
\* parameters with ValueError or TypeError has posted nothing and leaves the
\* session headers as they were; the next call starts from the session alone,
\* with nothing of the rejected call left.
C34_RejectedCallLeavesNoTrace == [][RejectedLeavesNoTrace]_vars

\* C34 witness: create_translation, the first call of a client, rejected its
\* parameters, and the session has no Content-Type.
C34_Witness ==
    /\ calls = 1
    /\ op = "create_translation"
    /\ pc = "done"
    /\ exc.type = "ValueError"
    /\ DOMAIN headers = {"x-api-key"}

\* ------------------------------------------- the two fetches of translate_tts

FirstFailing(s, a) ==
    CASE s \in {"create_translation", "create_translated_tts"} ->
            IF a.source_language < 1 \/ a.source_language > 148 THEN "source_language"
            ELSE IF a.target_language < 1 \/ a.target_language > 148
            THEN "target_language"
            ELSE IF a.formality \notin {{}, {1}, {2}} THEN "formality"
            ELSE IF a.gender \notin Gender \cup {"None"} THEN "gender"
            ELSE "none"
      [] s = "create_tts" ->
            IF a.gender \notin Gender \cup {"None"} THEN "gender"
            ELSE IF a.language < 1 \/ a.language > 148 THEN "language"
            ELSE "none"
      [] s = "create_custom_voice" ->
            IF a.gender \notin Gender THEN "gender"
            ELSE IF a.file \notin {"voice.wav", "missing.wav"} THEN "extension"
            ELSE IF a.file \notin {"voice.wav", "voice.mp3", "notes.txt"} THEN "file"
            ELSE "none"
      [] s = "create_transcription" ->
            IF a.language < 1 \/ a.language > 148 THEN "language"
            ELSE IF a.file \notin {"voice.wav", "voice.mp3", "notes.txt"} THEN "file"
            ELSE "none"
      [] OTHER -> "none"

\* The check whose error e is, for submitter s.
CheckOf(s, e) ==
    CASE e = Raise("ValueError", <<s, "Source Language must be between 1 and 148">>)
            -> "source_language"
      [] e = Raise("ValueError", <<s, "Target Language must be between 1 and 148">>)
            -> "target_language"
      [] e = Raise("ValueError", <<s, "formality must be one of {1, 2}">>)
            -> "formality"
      [] e = Raise("TypeError", <<"Gender must be an instance of Gender Enum.">>)
            -> "gender"
      [] e = Raise("ValueError", <<"Language ID must be between 1 and 148">>)
            -> "language"
      [] e = Raise("ValueError", <<"File is not a WAV file.">>) -> "extension"
      [] e = Raise("SystemExit", <<1>>) -> "file"
      [] OTHER -> "none"

\* A submitter run with parameters a raises the error of the first check a
\* fails and posts nothing, or posts when a passes them all.
FirstFailingCheckRaises ==
    (pc = "submit" /\ op \in Orchestrations \cup Submitters)
    => \A a \in ParamsOfStep, http \in HttpCodes, tid \in TaskIds :
          SubmitWith(a, http, tid)
          => IF FirstFailing(SubmitterOf(op), a) = "none"
             THEN Len(submits') = 1
             ELSE /\ submits' = <<>>
                  /\ pc' = "done"
                  /\ CheckOf(SubmitterOf(op), exc') = FirstFailing(SubmitterOf(op), a)

\* C38: a submitter given several invalid parameters raises one error, that
\* of the first check in its order: source_language, target_language,
\* formality, gender in create_translation and create_translated_tts; gender,
\* language in create_tts; gender, .wav extension, file existence in
\* create_custom_voice; language, file existence in create_transcription.
C38_FirstCheckInOrderRaises == [][FirstFailingCheckRaises]_vars

\* C38 witness: create_translation, given a source language, a formality and
\* a gender that are all invalid, raised the error of the source language.
C38_Witness ==
    /\ op = "create_translation"
    /\ pc = "done"
    /\ args # NoArgs
    /\ args.source_language = 0
    /\ args.formality = {3}
    /\ args.gender = "int 1"
    /\ exc = Raise("ValueError",
                   <<"create_translation", "Source Language must be between 1 and 148">>)

\* ------------------------------------------------------- the two dub methods

\* The step was cut short by a response that was not 200.
RefusedStep == pc' = "done" /\ exc'.type \in {"SystemExit", "HTTPError"}

\* The requests and the outcome of a dub whose responses are all 200, with
\* neither package named: what it posts, what it asks after each answer and
\* how it ends, the answers alone deciding.
DubSteps ==
    /\ (pc = "submit" /\ Posted)
       => /\ submits'[1].ep = "end_to_end_dubbing"
          /\ RefusedStep \/ GoesOn("poll")
    /\ (pc \in {"poll", "final"} /\ Len(hist) < MaxHist)
       => /\ Len(hist') = Len(hist) + 1
          /\ hist'[Len(hist')].ep = "end_to_end_dubbing"
          /\ hist'[Len(hist')].key = task_id
    /\ pc = "poll"
       => \/ RefusedStep /\ task' = task
          \/ task'.status = "SUCCESS" /\ GoesOn("final")
          \/ task'.status = "PENDING" /\ (GoesOn("poll") \/ GoesOn("sleep"))
          \/ /\ task'.status \notin {"SUCCESS", "PENDING"}
             /\ pc' = "done"
             /\ result' = NoResult
             /\ exc' = Raise("APIError", <<"Dubbing Issue: ", task'.status,
                                          " for Run ID: ", task'.run_id>>)
    /\ pc = "sleep"
       => /\ GoesOn("poll") \/ GoesOn("sleep")
          /\ UNCHANGED <<submits, hist, fetched>>
    /\ pc = "final"
       => \/ RefusedStep /\ task' = task
          \/ /\ task'.run_id = NoRun
             /\ pc' = "done"
             /\ result' = NoResult
             /\ exc' = Raise("APIError", <<"Run ID is None">>)
          \/ task'.run_id \in RunIds /\ GoesOn("fetch")
    /\ pc \in {"poll", "sleep", "final"} => fetched' = <<>> /\ submits' = submits
    /\ pc = "fetch"
       => /\ Len(fetched') = 1
          /\ fetched'[1].ep = "dubbed_run_info"
          /\ fetched'[1].run_id = task.run_id
          /\ pc' = "done"
          /\ IF fetched'[1].http # 200
             THEN RefusedStep
             ELSE exc' = NoExc /\ result' = fetched'[1].payload

\* Both dub methods take the steps of DubSteps.
BothDubsTakeDubSteps == op \in {"dub", "pip_dub"} => DubSteps

\* C35: camb_ai_pip's dub and cambai's dub are equivalent when every response
\* is 200: the same answers lead both through the same submission, status and
\* fetch requests to the same outcome, the same payload returned or an
\* APIError with the same message.
C35_TwoDubsEquivalent == [][BothDubsTakeDubSteps]_vars

\* ------------------------------------------------------------ the debug flag

\* What a call shows to the service and to its caller: all but the flag and
\* the console.
Observable(f) == [f EXCEPT !.debug = FALSE, !.printed = <<>>]

\* Every status object the two calls received had its run_id key.
RunIdKeyPresent ==
    \A th \in Threads : \A i \in 1..Len(frames[th].answers) :
        frames[th].answers[i].run_id # MissingKey

\* C36: debug only adds output: when every status object has a status and a
\* run_id (null or not), the call with debug=True and the call with
\* debug=False make the same requests and sleeps, in the same order, and end
\* in the same outcome.
C36_DebugOnlyObserved ==
    (frames[1] # NotCalled /\ RunIdKeyPresent)
    => Observable(frames[1]) = Observable(frames[2])

\* C36 witness: translate, called with polling_interval 1.5 with and without
\* debug, was told PENDING and then SUCCESS, slept two seconds in between
\* and returned the payload in both calls, the debug one having printed
\* three lines.
C36_Witness ==
    /\ frames[1] # NotCalled
    /\ RunIdKeyPresent
    /\ \A th \in Threads :
          /\ frames[th].op = "translate"
          /\ frames[th].pc = "done"
          /\ frames[th].result = "p2"
          /\ Len(frames[th].answers) = 3
          /\ frames[th].answers[1].status = "PENDING"
          /\ frames[th].trace[3] = Slept(2)
    /\ frames[1].printed = <<>>
    /\ Len(frames[2].printed) = 3

====
